---- MODULE Spec2Model ----
(***************************************************************************)
(* Model of the asynchronous review pipeline of codereview-api:            *)
(*   - POST /webhooks/github      (routes/webhooks.ts)                     *)
(*   - ReviewService.triggerReview / processReview (services/ReviewService)*)
(* Each webhook delivery d is one HTTP request.  Its handler is an async   *)
(* function: every `await` is a point where other handlers and review      *)
(* tasks may run, so the handler and the detached review task are modelled *)
(* as per-delivery processes whose steps are the code between two awaits.  *)
(* Spec and FairSpec are the pipeline.  UnitSpec applies the diff filter,  *)
(* the analysis engine and the request builders of postGitHubReview to     *)
(* every input of a bounded set, with the pipeline at rest.                *)
(***************************************************************************)
EXTENDS Integers, Sequences, FiniteSets, TLC

\* Number of webhook deliveries in one behaviour.
MaxDeliveries == 2

Deliveries == 1..MaxDeliveries

\* JavaScript null / undefined.
Null == "null"

(***************************************************************************)
(* Persistent rows that exist before the first delivery.                   *)
(***************************************************************************)
\* Repository rows: one without a webhook secret, one with a secret and
\* custom rules that belongs to another owner, and one whose owner has no
\* GitHub connection.
InitialRepositories ==
  { [id |-> "r1", fullName |-> "acme/open", userId |-> "u1",
     webhookSecret |-> Null, rules |-> Null],
    [id |-> "r2", fullName |-> "acme/sec", userId |-> "u3",
     webhookSecret |-> "s1", rules |-> "no-any"],
    [id |-> "r3", fullName |-> "solo/orphan", userId |-> "u2",
     webhookSecret |-> Null, rules |-> Null] }

\* GitHubConnection rows: one per owner that has connected, each with its
\* own token.
InitialConnections ==
  { [userId |-> "u1", githubId |-> "gh-1", accessToken |-> "tok-u1"],
    [userId |-> "u3", githubId |-> "gh-3", accessToken |-> "tok-u3"] }

(***************************************************************************)
(* Webhook requests.                                                       *)
(***************************************************************************)
\* An action filter that lets closed pull requests through.
TriggerActions_WithClosed == {"opened", "synchronize", "reopened", "closed"}

\* The actions of a pull_request event that trigger a review.
TriggerActions == {"opened", "synchronize", "reopened"}

\* crypto.createHmac("sha256", secret).update(body).digest("hex"): an ideal
\* MAC, injective in (secret, body).
Hmac(secret, body) == <<"hmac-sha256", secret, body>>

\* Length of "sha256=" followed by 64 hex digits.
SignatureLength == 71

\* The pull_request object of the payload, in three variants that differ in
\* every field the handler reads.
OpenPr == [title |-> "t1", login |-> "alice", html_url |-> "url-a",
           state |-> "open", merged |-> FALSE]

ClosedPr == [title |-> "t2", login |-> "bob", html_url |-> "url-b",
             state |-> "closed", merged |-> FALSE]

MergedPr == [title |-> "t3", login |-> "carol", html_url |-> "url-c",
             state |-> "closed", merged |-> TRUE]

\* The JSON body of a delivery.
Body(action, fullName, number, pr) ==
  [action |-> action, full_name |-> fullName, number |-> number, pr |-> pr]

\* A request without the x-hub-signature-256 header.
NoSignature == [present |-> FALSE, text |-> <<>>, length |-> 0]

\* The x-hub-signature-256 header a sender of the given kind attaches to body.
SignatureOf(kind, body) ==
  CASE kind = "none"      -> NoSignature
    [] kind = "valid"     -> [present |-> TRUE, text |-> Hmac("s1", body),
                              length |-> SignatureLength]
    [] kind = "forged"    -> [present |-> TRUE, text |-> Hmac("guess", body),
                              length |-> SignatureLength]
    [] kind = "malformed" -> [present |-> TRUE, text |-> <<"abc">>, length |-> 3]

MkRequest(event, kind, body) ==
  [event |-> event, body |-> body, signature |-> SignatureOf(kind, body)]

\* The deliveries the environment may send.  Fields a path of the handler
\* never reads are fixed to one value on that path.
Requests ==
  { MkRequest("push", "none", Body("opened", "acme/open", 1, OpenPr)),
    MkRequest("pull_request", "none", Body("closed", "acme/open", 1, ClosedPr)),
    MkRequest("pull_request", "none", Body("opened", "nobody/unregistered", 1, OpenPr)),
    MkRequest("pull_request", "none", Body("opened", "solo/orphan", 1, OpenPr)),
    MkRequest("pull_request", "none", Body("opened", "acme/open", 1, OpenPr)),
    MkRequest("pull_request", "none", Body("synchronize", "acme/open", 1, ClosedPr)),
    MkRequest("pull_request", "none", Body("reopened", "acme/open", 2, MergedPr)) }
  \cup { MkRequest("pull_request", k, Body("opened", "acme/sec", 1, OpenPr)) :
           k \in {"none", "valid", "forged", "malformed"} }

\* request[d] before delivery d has arrived.
NoRequest == MkRequest("none", "none", Body("none", "none", 0, OpenPr))

VARIABLES
  repositories,    \* Repository rows
  connections,     \* GitHubConnection rows
  pullRequests,    \* PullRequest rows
  reviews,         \* Review rows, reviews[i].id = i
  reviewComments,  \* ReviewComment rows
  request,         \* request[d]: the request of delivery d, NoRequest before it arrives
  handler,         \* handler[d]: position and locals of the webhook handler
  response,        \* response[d]: HTTP status sent for d, 0 while none is sent
  task,            \* task[d]: position and locals of the review task d launched
  log,             \* console.warn / console.error lines
  calls,           \* calls[d]: the requests task d has sent to the diff host, the
                   \* AI provider and the publication endpoint, with their answers
  unit,            \* one application of the diff filter, the analysis engine and
                   \* the request builders to given inputs
  users,           \* User rows: the columns of the stored OpenAI key
  encryptionKey,   \* process.env.APP_ENCRYPTION_KEY, {} when it is not set
  keyUse,          \* one resolution of the AI credential and its outcome
  listing,         \* one run of GET /api/github/repos against the code host
  http,            \* the API requests in flight, by client
  stateStore,      \* the OAuth states issued and not yet used
  oauth            \* the OAuth callbacks in flight, by browser

\* The variables outside the webhook pipeline.
apiVars == <<users, encryptionKey, keyUse, listing, http, stateStore, oauth>>

\* The variables of the webhook pipeline and of the unit.
webhookVars == <<repositories, connections, pullRequests, reviews, reviewComments,
                 request, handler, response, task, log, calls, unit>>

vars == <<repositories, connections, pullRequests, reviews, reviewComments,
          request, handler, response, task, log, calls, unit, apiVars>>

dbVars == <<repositories, connections, pullRequests, reviews, reviewComments>>

(***************************************************************************)
(* Shapes of the per-delivery locals.                                      *)
(***************************************************************************)
\* ReviewContext before a task has one.
NoCtx == [prId |-> 0, repoFullName |-> "none", prNumber |-> 0,
          accessToken |-> "none", rules |-> Null]

\* The webhook handler's locals: registeredRepo and ghConnection hold the row
\* found, as a set with at most one element.
IdleHandler == [pc |-> "idle", registeredRepo |-> {}, ghConnection |-> {}]

\* A task that was never launched.
NoTask == [pc |-> "none", reviewId |-> 0, ctx |-> NoCtx, files |-> <<>>,
           comments |-> <<>>, summary |-> <<>>, tokensUsed |-> 0,
           error |-> <<>>]

(***************************************************************************)
(* POST /webhooks/github                                                   *)
(***************************************************************************)
\* res.json(...) / res.status(s).json(...) followed by return.
Respond(d, status) ==
  /\ response' = [response EXCEPT ![d] = status]
  /\ handler' = [handler EXCEPT ![d].pc = "sent"]

\* Delivery d arrives; the handler runs up to its first await: the event and
\* action filters, then the repository lookup is issued.
WebhookReceive(d, r) ==
  /\ handler[d].pc = "idle"
  /\ d > 1 => handler[d - 1].pc # "idle"
  /\ request' = [request EXCEPT ![d] = r]
  /\ IF r.event # "pull_request"
       THEN Respond(d, 200)
       ELSE IF r.body.action \notin TriggerActions
         THEN Respond(d, 200)
         ELSE /\ handler' = [handler EXCEPT ![d].pc = "findRepository"]
              /\ UNCHANGED response
  /\ UNCHANGED <<dbVars, task, log, calls, unit, apiVars>>

\* express.json() is installed without a verify callback, so nothing stores
\* the raw bytes on the request: req.rawBody is undefined.
RawBodyCaptured == FALSE

\* (req as any).rawBody: the set holding the raw body, empty when undefined.
RawBody(r) == IF RawBodyCaptured THEN {r.body} ELSE {}

\* timingSafeEqual throws on buffers of different length (caught: false),
\* otherwise compares the bytes.
verifySignature(secret, rawBody, signature) ==
  LET expected == [text |-> Hmac(secret, rawBody), length |-> SignatureLength]
  IN  IF signature.length # expected.length
        THEN FALSE
        ELSE signature.text = expected.text

\* The guard of the verification block: it is entered only when the repository
\* has a secret and the request carries the signature header.
SignatureChecked(repo, r) ==
  repo.webhookSecret # Null /\ r.signature.present

\* The condition under which the handler answers 401.
SignatureRejected(repo, r) ==
  /\ SignatureChecked(repo, r)
  /\ \/ RawBody(r) = {}
     \/ \E raw \in RawBody(r) : ~verifySignature(repo.webhookSecret, raw, r.signature)

\* A lookup that lost its where clause.
FindRepository_AnyRow(rows, fullName) == rows

\* prisma.repository.findUnique({ where: { fullName } }): the row found, as a
\* set with at most one element.
FindRepository(rows, fullName) == {repo \in rows : repo.fullName = fullName}

\* prisma.repository.findUnique returns; then the signature check, then the
\* connection lookup is issued.
WebhookFindRepository(d) ==
  /\ handler[d].pc = "findRepository"
  /\ LET r == request[d]
         found == FindRepository(repositories, r.body.full_name)
     IN  IF found = {}
           THEN /\ Respond(d, 200)
                /\ UNCHANGED log
           ELSE \E repo \in found :
                  IF SignatureRejected(repo, r)
                    THEN /\ Respond(d, 401)
                         /\ log' = log \cup {<<d, "Invalid webhook signature", <<>>>>}
                    ELSE /\ handler' = [handler EXCEPT ![d].pc = "findConnection",
                                                       ![d].registeredRepo = {repo}]
                         /\ UNCHANGED <<response, log>>
  /\ UNCHANGED <<dbVars, request, task, calls, unit, apiVars>>

\* prisma.gitHubConnection.findFirst returns; without a connection the
\* handler answers 500, otherwise the upsert is issued.
WebhookFindConnection(d) ==
  /\ handler[d].pc = "findConnection"
  /\ \E repo \in handler[d].registeredRepo :
       LET found == {c \in connections : c.userId = repo.userId}
       IN  IF found = {}
             THEN /\ Respond(d, 500)
                  /\ log' = log \cup {<<d, "No GitHub connection", <<>>>>}
             ELSE /\ \E c \in found :
                       handler' = [handler EXCEPT ![d].pc = "upsert",
                                                  ![d].ghConnection = {c}]
                  /\ UNCHANGED <<response, log>>
  /\ UNCHANGED <<dbVars, request, task, calls, unit, apiVars>>

\* pr.merged ? "merged" : pr.state === "closed" ? "closed" : "open"
PrStatus(pr) ==
  IF pr.merged THEN "merged" ELSE IF pr.state = "closed" THEN "closed" ELSE "open"

\* The id the store gives a new PullRequest row.
NewPullRequestId(rows) == Cardinality(rows) + 1

\* An upsert that takes the create branch whatever the store holds.
UpsertPullRequest_AlwaysCreate(rows, repo, b) ==
  rows \cup { [id |-> NewPullRequestId(rows), repoId |-> repo.id,
               number |-> b.number, title |-> b.pr.title,
               author |-> b.pr.login, url |-> b.pr.html_url,
               status |-> PrStatus(b.pr)] }

\* prisma.pullRequest.upsert keyed by the unique (repoId, number): the rows
\* after the upsert of body b for repository repo.
UpsertPullRequest(rows, repo, b) ==
  LET existing == {p \in rows : p.repoId = repo.id /\ p.number = b.number}
  IN  IF existing = {}
        THEN rows \cup { [id |-> NewPullRequestId(rows), repoId |-> repo.id,
                          number |-> b.number, title |-> b.pr.title,
                          author |-> b.pr.login, url |-> b.pr.html_url,
                          status |-> PrStatus(b.pr)] }
        ELSE (rows \ existing)
             \cup { [p EXCEPT !.title = b.pr.title, !.status = PrStatus(b.pr)] :
                      p \in existing }

\* The row the upsert returns.
UpsertedRow(rows, repo, b) ==
  CHOOSE p \in UpsertPullRequest(rows, repo, b) :
    p.repoId = repo.id /\ p.number = b.number

\* A context that carries the token of whichever connection the store lists.
ReviewContext_AnyConnection(d, prId, repo, conn) ==
  [prId |-> prId,
   repoFullName |-> request[d].body.full_name,
   prNumber |-> request[d].body.number,
   accessToken |-> (CHOOSE c \in connections : c.userId = "u1").accessToken,
   rules |-> repo.rules]

\* The ReviewContext literal the handler passes to triggerReview.
ReviewContext(d, prId, repo, conn) ==
  [prId |-> prId,
   repoFullName |-> request[d].body.full_name,
   prNumber |-> request[d].body.number,
   accessToken |-> conn.accessToken,
   rules |-> repo.rules]

\* A handler that awaits the review before it answers.
TriggerAndRespond_Awaiting(d, prId, repo, conn) ==
  /\ task' = [task EXCEPT ![d] =
       [NoTask EXCEPT !.pc = "createReview",
                      !.ctx = ReviewContext(d, prId, repo, conn)]]
  /\ handler' = [handler EXCEPT ![d].pc = "awaitReview"]
  /\ UNCHANGED response

\* ReviewService.triggerReview(...) is called without await: the call runs up
\* to its first await (review.create is issued) and the handler goes on to
\* send 201 in the same turn.
TriggerAndRespond(d, prId, repo, conn) ==
  /\ task' = [task EXCEPT ![d] =
       [NoTask EXCEPT !.pc = "createReview",
                      !.ctx = ReviewContext(d, prId, repo, conn)]]
  /\ Respond(d, 201)

\* The upsert returns; the review is triggered and the response sent.
WebhookUpsert(d) ==
  /\ handler[d].pc = "upsert"
  /\ \E repo \in handler[d].registeredRepo : \E conn \in handler[d].ghConnection :
       /\ pullRequests' = UpsertPullRequest(pullRequests, repo, request[d].body)
       /\ TriggerAndRespond(d, UpsertedRow(pullRequests, repo, request[d].body).id,
                            repo, conn)
  /\ UNCHANGED <<repositories, connections, reviews, reviewComments, request, log, calls, unit, apiVars>>

HandlerNext ==
  \/ \E d \in Deliveries : \E r \in Requests : WebhookReceive(d, r)
  \/ \E d \in Deliveries : WebhookFindRepository(d)
  \/ \E d \in Deliveries : WebhookFindConnection(d)
  \/ \E d \in Deliveries : WebhookUpsert(d)

(***************************************************************************)
(* Text.  A file name is a sequence of characters; any other text is a     *)
(* sequence of fragments, <<>> standing for null.                          *)
(***************************************************************************)
EndsWith(s, t) ==
  /\ Len(t) <= Len(s)
  /\ SubSeq(s, Len(s) - Len(t) + 1, Len(s)) = t

Contains(s, t) ==
  \E i \in 1..(Len(s) - Len(t) + 1) : SubSeq(s, i, i + Len(t) - 1) = t

(***************************************************************************)
(* ReviewService.fetchDiff                                                 *)
(***************************************************************************)
\* The answers of the diff host to GET .../pulls/N/files.
LockFile == [filename |-> <<"y", ".", "l", "o", "c", "k">>,
             patch |-> [present |-> TRUE, length |-> 40], status |-> "modified"]

SourceFile == [filename |-> <<"a", ".", "t", "s">>,
               patch |-> [present |-> TRUE, length |-> 120], status |-> "modified"]

BinaryFile == [filename |-> <<"i", ".", "p", "n", "g">>,
               patch |-> [present |-> FALSE, length |-> 0], status |-> "added"]

DiffResponses ==
  { [ok |-> FALSE, status |-> 404, files |-> <<>>],
    [ok |-> TRUE, status |-> 200, files |-> <<LockFile, BinaryFile>>],
    [ok |-> TRUE, status |-> 200, files |-> <<LockFile, SourceFile>>] }

\* An error message that leaves the status out.
GithubError_NoStatus(status) == <<"GitHub API ", "request failed">>

\* githubFetch throws this on a response that is not ok.
GithubError(status) == <<"GitHub API ", ToString(status)>>

\* The patch-size ceiling of the filter.
MaxPatchLength == 10000

\* skipPatterns: suffix patterns (/...$/) and patterns matched anywhere.
SkipSuffixes ==
  { <<"p","a","c","k","a","g","e","-","l","o","c","k",".","j","s","o","n">>,
    <<"y","a","r","n",".","l","o","c","k">>,
    <<"p","n","p","m","-","l","o","c","k",".","y","a","m","l">>,
    <<".","l","o","c","k">>,
    <<".","m","i","n",".","j","s">>,
    <<".","m","i","n",".","c","s","s">>,
    <<".","m","a","p">> }

SkipAnywhere ==
  { <<"d","i","s","t","/">>, <<"b","u","i","l","d","/">> }

MatchesSkipPattern(filename) ==
  \/ \E t \in SkipSuffixes : EndsWith(filename, t)
  \/ \E t \in SkipAnywhere : Contains(filename, t)

\* A filter whose ceiling also excludes a patch of exactly the ceiling's size.
Reviewable_CeilingExclusive(f) ==
  /\ f.patch.present /\ f.patch.length > 0
  /\ ~(f.patch.length >= MaxPatchLength)
  /\ ~MatchesSkipPattern(f.filename)

\* The predicate of files.filter(...).
Reviewable(f) ==
  /\ f.patch.present /\ f.patch.length > 0
  /\ ~(f.patch.length > MaxPatchLength)
  /\ ~MatchesSkipPattern(f.filename)

\* files.filter(...).map(...)
FilterFiles(files) == SelectSeq(files, Reviewable)

(***************************************************************************)
(* ReviewService.analyzeWithAI                                             *)
(***************************************************************************)
Categories == {"security", "performance", "style", "bug", "best-practice"}
Severities == {"info", "warning", "error"}

\* The ceiling on the diff text of the prompt.
MaxDiffLength == 60000

\* Length of the status word of a file.
StatusLength(status) ==
  CASE status = "added" -> 5 [] status = "modified" -> 8 [] OTHER -> 7

\* Length of `\n--- ${filename} (${status}) ---\n${patch}\n`.
FileBlockLength(f) ==
  5 + Len(f.filename) + 2 + StatusLength(f.status) + 6 + f.patch.length + 1

\* The loop that builds diffText: the names included, given the files left
\* and the length of diffText so far.
RECURSIVE IncludedFrom(_, _)
IncludedFrom(files, length) ==
  IF files = <<>> THEN <<>>
  ELSE IF length + FileBlockLength(Head(files)) > MaxDiffLength THEN <<>>
  ELSE <<Head(files).filename>>
       \o IncludedFrom(Tail(files), length + FileBlockLength(Head(files)))

\* A loop that skips a file that does not fit and goes on (continue for break).
RECURSIVE IncludedFrom_Continue(_, _)
IncludedFrom_Continue(files, length) ==
  IF files = <<>> THEN <<>>
  ELSE IF length + FileBlockLength(Head(files)) > MaxDiffLength
         THEN IncludedFrom_Continue(Tail(files), length)
         ELSE <<Head(files).filename>> \o
              IncludedFrom_Continue(Tail(files), length + FileBlockLength(Head(files)))

IncludedFiles_Continue(files) == IncludedFrom_Continue(files, 0)

IncludedFiles(files) == IncludedFrom(files, 0)

SeqRange(q) == {q[i] : i \in DOMAIN q}

\* Comments the AI may return.
AiComment(path, lineIsNumber, category, severity) ==
  [filePath |-> path, line |-> [isNumber |-> lineIsNumber, value |-> 7],
   body |-> <<"fix this">>, category |-> category, severity |-> severity]

\* The answers of the AI provider: the call throws, or returns a completion
\* whose content is empty, unparseable or a JSON object.
AiResponses ==
  { [throws |-> TRUE, content |-> "empty", summary |-> <<>>, comments |-> <<>>,
     prompt_tokens |-> {}, completion_tokens |-> {}],
    [throws |-> FALSE, content |-> "empty", summary |-> <<>>, comments |-> <<>>,
     prompt_tokens |-> {900}, completion_tokens |-> {}],
    [throws |-> FALSE, content |-> "unparseable", summary |-> <<>>, comments |-> <<>>,
     prompt_tokens |-> {900}, completion_tokens |-> {50}],
    [throws |-> FALSE, content |-> "json", summary |-> <<"Needs work.">>,
     comments |-> << AiComment(SourceFile.filename, TRUE, "bug", "error"),
                     AiComment(LockFile.filename, TRUE, "bug", "warning"),
                     AiComment(SourceFile.filename, TRUE, "nitpick", "fatal") >>,
     prompt_tokens |-> {900}, completion_tokens |-> {100}] }

\* x ?? 0 for an optional number held as a set.
OrZero(x) == IF x = {} THEN 0 ELSE CHOOSE n \in x : TRUE

\* A filter that does not look the path up in includedFiles.
CommentAccepted_AnyPath(c, included) ==
  /\ c.filePath # <<>>
  /\ c.line.isNumber
  /\ c.body # <<>>

\* The predicate of (parsed.comments || []).filter(...).
CommentAccepted(c, included) ==
  /\ c.filePath # <<>>
  /\ c.line.isNumber
  /\ c.body # <<>>
  /\ c.filePath \in SeqRange(included)

\* A map that copies category and severity as they came.
NormalizeComment_Unchecked(c) ==
  [filePath |-> c.filePath, line |-> c.line.value, body |-> c.body,
   category |-> c.category, severity |-> c.severity]

\* The map(...) that follows: category and severity are coerced.
NormalizeComment(c) ==
  [filePath |-> c.filePath, line |-> c.line.value, body |-> c.body,
   category |-> IF c.category \in Categories THEN c.category ELSE "best-practice",
   severity |-> IF c.severity \in Severities THEN c.severity ELSE "info"]

RECURSIVE ValidateComments(_, _)
ValidateComments(raw, included) ==
  IF raw = <<>> THEN <<>>
  ELSE IF CommentAccepted(Head(raw), included)
    THEN <<NormalizeComment(Head(raw))>> \o ValidateComments(Tail(raw), included)
    ELSE ValidateComments(Tail(raw), included)

\* A count that leaves the completion tokens out.
TokensUsed_PromptOnly(ai) == OrZero(ai.prompt_tokens)

\* (response.usage?.prompt_tokens ?? 0) + (response.usage?.completion_tokens ?? 0)
TokensUsed(ai) == OrZero(ai.prompt_tokens) + OrZero(ai.completion_tokens)

\* What analyzeWithAI returns for a completion that did not throw.
AnalysisResult(files, ai) ==
  LET tokensUsed == TokensUsed(ai)
      comments == ValidateComments(ai.comments, IncludedFiles(files))
  IN  CASE ai.content = "empty" ->
             [comments |-> <<>>, summary |-> <<"AI returned empty response.">>,
              tokensUsed |-> tokensUsed]
        [] ai.content = "unparseable" ->
             [comments |-> <<>>, summary |-> <<"AI response could not be parsed.">>,
              tokensUsed |-> tokensUsed]
        [] OTHER ->
             [comments |-> comments,
              summary |-> IF ai.summary # <<>> THEN ai.summary
                          ELSE <<"Found ", ToString(Len(comments)), " issues.">>,
              tokensUsed |-> tokensUsed]

(***************************************************************************)
(* ReviewService.postGitHubReview: the two requests it may send.           *)
(***************************************************************************)
\* counts[s] after the loop over the comments.
CountSeverity(comments, s) ==
  Cardinality({i \in DOMAIN comments : comments[i].severity = s})

\* reviewBody: the heading with the summary, then the tally of the comments.
\* details is the list the fallback appends.
ReviewBody(comments, summary) ==
  [summary |-> summary, issues |-> Len(comments),
   errors |-> CountSeverity(comments, "error"),
   warnings |-> CountSeverity(comments, "warning"),
   infos |-> CountSeverity(comments, "info"),
   details |-> <<>>]

\* ghComments: one inline comment per comment, its body prefixed with the
\* severity and category markers.
GhComments(comments) ==
  [i \in 1..Len(comments) |->
     [path |-> comments[i].filePath, line |-> comments[i].line,
      body |-> <<comments[i].severity, comments[i].category>> \o comments[i].body]]

\* An event that asks for changes on a warning too.
ReviewEvent_OnWarning(comments) ==
  IF \E i \in DOMAIN comments : comments[i].severity \in {"error", "warning"}
    THEN "REQUEST_CHANGES" ELSE "COMMENT"

\* comments.some((c) => c.severity === "error") ? "REQUEST_CHANGES" : "COMMENT"
ReviewEvent(comments) ==
  IF \E i \in DOMAIN comments : comments[i].severity = "error"
    THEN "REQUEST_CHANGES" ELSE "COMMENT"

\* The JSON body of the review-creation call with inline comments.
PrimaryRequest(comments, summary) ==
  [body |-> ReviewBody(comments, summary),
   event |-> ReviewEvent(comments),
   comments |-> GhComments(comments)]

\* fallbackBody: reviewBody followed by one entry per comment.
FallbackBody(comments, summary) ==
  [ReviewBody(comments, summary) EXCEPT !.details =
     [i \in 1..Len(comments) |->
        [severity |-> comments[i].severity, category |-> comments[i].category,
         filePath |-> comments[i].filePath, line |-> comments[i].line,
         body |-> comments[i].body]]]

\* A fallback that sends the inline comments again.
FallbackRequest_WithInline(comments, summary) ==
  [body |-> FallbackBody(comments, summary),
   event |-> "COMMENT",
   comments |-> GhComments(comments)]

\* The JSON body of the body-only call.
FallbackRequest(comments, summary) ==
  [body |-> FallbackBody(comments, summary),
   event |-> "COMMENT",
   comments |-> <<>>]

\* The payload of a call that is not a review-creation call.
NoPayload == [body |-> ReviewBody(<<>>, <<>>), event |-> "none", comments |-> <<>>]

\* One request sent by a task: where it went, whether the answer was a
\* success, its HTTP status, the kind of content the AI provider returned,
\* what the request carried, the bearer token of its Authorization header
\* (requests to the code host) and the custom rules of its prompt (the
\* request to the AI provider).
Call(target, ok, status, content, payload, ctx) ==
  [target |-> target, ok |-> ok, status |-> status, content |-> content,
   payload |-> payload,
   token |-> IF target = "ai" THEN "none" ELSE ctx.accessToken,
   rules |-> IF target = "ai" THEN ctx.rules ELSE Null]

(***************************************************************************)
(* ReviewService.triggerReview / processReview                             *)
(* Every write to the store may succeed or fail (ok), every call to the    *)
(* diff host, the AI provider and the publication endpoint returns one of  *)
(* its possible answers.                                                   *)
(***************************************************************************)
DbError == <<"database error">>
AiError == <<"AI request failed">>

\* An update whose data leaves completedAt out.
UpdateReview_NoTimestamp(rows, id, status, completedAt, summary, tokensUsed) ==
  [rows EXCEPT ![id] = [@ EXCEPT !.status = status, !.summary = summary,
                                 !.tokensUsed = tokensUsed]]

\* prisma.review.update({ where: { id }, data }): the rows after the update.
UpdateReview(rows, id, status, completedAt, summary, tokensUsed) ==
  [rows EXCEPT ![id] = [@ EXCEPT !.status = status, !.completedAt = completedAt,
                                 !.summary = summary, !.tokensUsed = tokensUsed]]

\* An update that selects by pull request: where: { prId }.
UpdateReviewStatus_ByPullRequest(rows, id, status) ==
  [i \in DOMAIN rows |->
     IF rows[i].prId = rows[id].prId THEN [rows[i] EXCEPT !.status = status]
                                     ELSE rows[i]]

\* The same for an update whose data holds the status alone.
UpdateReviewStatus(rows, id, status) ==
  [rows EXCEPT ![id].status = status]

\* A rejection that is logged inside processReview, which then goes on.
Reject_GoesOn(d, message) ==
  /\ task' = [task EXCEPT ![d].pc = "fetchDiff"]
  /\ log' = log \cup {<<d, "Review failed", message>>}

\* processReview rejects with message: the .catch of triggerReview logs it
\* and nothing else runs for this task.
Reject(d, message) ==
  /\ task' = [task EXCEPT ![d].pc = "rejected"]
  /\ log' = log \cup {<<d, "Review failed", message>>}

\* A rejection of triggerReview that reaches the error middleware.
ResponseAfterTriggerFailure_Surfaced(d) == 500

\* The status the webhook sender has after triggerReview rejected: the
\* .catch of the handler only logs.
ResponseAfterTriggerFailure(d) == response[d]

\* triggerReview: prisma.review.create returns.  On success processReview is
\* called without await and issues its first update; on failure the promise
\* of triggerReview rejects into the handler's .catch.
TaskCreateReview(d, ok) ==
  /\ task[d].pc = "createReview"
  /\ IF ok
       THEN /\ reviews' = Append(reviews,
                 [id |-> Len(reviews) + 1, prId |-> task[d].ctx.prId,
                  status |-> "pending", startedAt |-> "set", completedAt |-> Null,
                  summary |-> <<>>, tokensUsed |-> {}])
            /\ task' = [task EXCEPT ![d].pc = "markRunning",
                                    ![d].reviewId = Len(reviews) + 1]
            /\ UNCHANGED <<log, response>>
       ELSE /\ task' = [task EXCEPT ![d].pc = "triggerFailed"]
            /\ log' = log \cup {<<d, "Review trigger failed", DbError>>}
            /\ response' = [response EXCEPT ![d] = ResponseAfterTriggerFailure(d)]
            /\ UNCHANGED reviews
  /\ UNCHANGED <<repositories, connections, pullRequests, reviewComments,
                 request, handler, calls, unit, apiVars>>

\* processReview, the update to running, which is outside the try block: on
\* failure processReview rejects into the .catch of triggerReview.
TaskMarkRunning(d, ok) ==
  /\ task[d].pc = "markRunning"
  /\ IF ok
       THEN /\ reviews' = UpdateReviewStatus(reviews, task[d].reviewId, "running")
            /\ task' = [task EXCEPT ![d].pc = "fetchDiff"]
            /\ UNCHANGED log
       ELSE /\ Reject(d, DbError)
            /\ UNCHANGED reviews
  /\ UNCHANGED <<repositories, connections, pullRequests, reviewComments,
                 request, handler, response, calls, unit, apiVars>>

\* A catch block that runs the steps of the try block again.
Throw_Retry(d, message) ==
  /\ task' = [task EXCEPT ![d].pc = "fetchDiff"]
  /\ UNCHANGED log

\* A throw that no catch block handles.
Throw_Uncaught(d, message) == Reject(d, message)

\* A throw inside the try block: control passes to the catch block, which
\* issues the update to error.
Throw(d, message) ==
  /\ task' = [task EXCEPT ![d].pc = "markError", ![d].error = message]
  /\ UNCHANGED log

\* The empty-diff branch without its return statement.
AfterEmptyDiffDone_NoReturn == "analyze"

\* Where processReview goes after the update of the empty-diff branch: it
\* returns.
AfterEmptyDiffDone == "finished"

\* A run without the empty-diff branch.
AfterFetchDiff_NoEmptyBranch(files) == "analyze"

\* if (files.length === 0): the empty-diff branch, else the analysis.
AfterFetchDiff(files) ==
  IF Len(files) = 0 THEN "markDoneEmpty" ELSE "analyze"

\* fetchDiff returns or throws.
TaskFetchDiff(d, resp) ==
  /\ task[d].pc = "fetchDiff"
  /\ IF ~resp.ok
       THEN Throw(d, GithubError(resp.status))
       ELSE /\ task' = [task EXCEPT
                 ![d].files = FilterFiles(resp.files),
                 ![d].pc = AfterFetchDiff(FilterFiles(resp.files))]
            /\ UNCHANGED log
  /\ calls' = [calls EXCEPT ![d] =
       Append(@, Call("diff", resp.ok, resp.status, "files", NoPayload, task[d].ctx))]
  /\ UNCHANGED <<dbVars, request, handler, response, unit, apiVars>>

\* The update of the empty-diff branch.
TaskMarkDoneEmpty(d, ok) ==
  /\ task[d].pc = "markDoneEmpty"
  /\ IF ok
       THEN /\ reviews' = UpdateReview(reviews, task[d].reviewId, "done", "set",
                                       <<"No reviewable changes found.">>, {0})
            /\ task' = [task EXCEPT ![d].pc = AfterEmptyDiffDone]
            /\ UNCHANGED log
       ELSE /\ Throw(d, DbError)
            /\ UNCHANGED reviews
  /\ UNCHANGED <<repositories, connections, pullRequests, reviewComments,
                 request, handler, response, calls, unit, apiVars>>

\* An engine that lets the failure of JSON.parse escape.
AnalysisThrows_OnParseError(ai) == ai.throws \/ ai.content = "unparseable"

\* analyzeWithAI throws only when the completion call does: the empty content
\* returns early and JSON.parse sits in a try block of its own.
AnalysisThrows(ai) == ai.throws

\* A run that publishes before it stores the comments.
AfterAnalysis_PublishFirst(comments) == "postReview"

\* processReview after analyzeWithAI returned: createMany is awaited when
\* there are comments, and postGitHubReview comes after it.
AfterAnalysis(comments) ==
  IF Len(comments) > 0 THEN "storeComments" ELSE "postReview"

\* analyzeWithAI returns, or throws (the completion call failed; a failed key
\* lookup throws before the call and is counted as a failed call).
TaskAnalyze(d, ai) ==
  /\ task[d].pc = "analyze"
  /\ IF AnalysisThrows(ai)
       THEN Throw(d, AiError)
       ELSE LET res == AnalysisResult(task[d].files, ai)
            IN  /\ task' = [task EXCEPT
                      ![d].comments = res.comments,
                      ![d].summary = res.summary,
                      ![d].tokensUsed = res.tokensUsed,
                      ![d].pc = AfterAnalysis(res.comments)]
                /\ UNCHANGED log
  /\ calls' = [calls EXCEPT ![d] =
       Append(@, Call("ai", ~ai.throws, IF ai.throws THEN 0 ELSE 200,
                      ai.content, NoPayload, task[d].ctx))]
  /\ UNCHANGED <<dbVars, request, handler, response, unit, apiVars>>

\* A batch that loses its last row.
CommentRows_DropLast(reviewId, comments) ==
  { [reviewId |-> reviewId, index |-> i, comment |-> comments[i]] :
      i \in 1..(Len(comments) - 1) }

\* comments.map((c) => ({ reviewId, ...c })): the rows of the batch.
CommentRows(reviewId, comments) ==
  { [reviewId |-> reviewId, index |-> i, comment |-> comments[i]] :
      i \in DOMAIN comments }

\* prisma.reviewComment.createMany
TaskStoreComments(d, ok) ==
  /\ task[d].pc = "storeComments"
  /\ IF ok
       THEN /\ reviewComments' = reviewComments \cup
                 CommentRows(task[d].reviewId, task[d].comments)
            /\ task' = [task EXCEPT ![d].pc = "postReview"]
            /\ UNCHANGED log
       ELSE /\ Throw(d, DbError)
            /\ UNCHANGED reviewComments
  /\ UNCHANGED <<repositories, connections, pullRequests, reviews,
                 request, handler, response, calls, unit, apiVars>>

\* The status the publication endpoint answers a rejected review with.
PublicationFailureStatus == 422

\* postGitHubReview, the review-creation call with inline comments.
TaskPostReview(d, ok) ==
  /\ task[d].pc = "postReview"
  /\ IF ok
       THEN /\ task' = [task EXCEPT ![d].pc = "markDone"]
            /\ UNCHANGED log
       ELSE /\ task' = [task EXCEPT ![d].pc = "postFallback"]
            /\ UNCHANGED log
  /\ calls' = [calls EXCEPT ![d] =
       Append(@, Call("review", ok, IF ok THEN 200 ELSE PublicationFailureStatus,
                      "review", PrimaryRequest(task[d].comments, task[d].summary),
                      task[d].ctx))]
  /\ UNCHANGED <<dbVars, request, handler, response, unit, apiVars>>

\* A fallback whose failure is swallowed: the run goes on to mark done.
FallbackFailure_Swallowed(d) ==
  /\ task' = [task EXCEPT ![d].pc = "markDone"]
  /\ UNCHANGED log

\* The fallback call sits in the catch block with no try of its own: the
\* error githubFetch throws leaves postGitHubReview and reaches the catch of
\* processReview.
FallbackFailure(d) == Throw(d, GithubError(PublicationFailureStatus))

\* postGitHubReview, the body-only call of the catch block; its failure
\* leaves postGitHubReview as a throw.
TaskPostFallback(d, ok) ==
  /\ task[d].pc = "postFallback"
  /\ IF ok
       THEN /\ task' = [task EXCEPT ![d].pc = "markDone"]
            /\ UNCHANGED log
       ELSE FallbackFailure(d)
  /\ calls' = [calls EXCEPT ![d] =
       Append(@, Call("review", ok, IF ok THEN 200 ELSE PublicationFailureStatus,
                      "review", FallbackRequest(task[d].comments, task[d].summary),
                      task[d].ctx))]
  /\ UNCHANGED <<dbVars, request, handler, response, unit, apiVars>>

\* A summary that reports the failed publication attempt.
DoneSummary_NotesFallback(d) ==
  IF \E i \in DOMAIN calls[d] : calls[d][i].target = "review" /\ ~calls[d][i].ok
    THEN task[d].summary \o <<" (inline comments failed)">>
    ELSE task[d].summary

\* The summary of the update to done: the one analyzeWithAI returned.
DoneSummary(d) == task[d].summary

\* The update to done.
TaskMarkDone(d, ok) ==
  /\ task[d].pc = "markDone"
  /\ IF ok
       THEN /\ reviews' = UpdateReview(reviews, task[d].reviewId, "done", "set",
                                       DoneSummary(d), {task[d].tokensUsed})
            /\ task' = [task EXCEPT ![d].pc = "finished"]
            /\ UNCHANGED log
       ELSE /\ Throw(d, DbError)
            /\ UNCHANGED reviews
  /\ UNCHANGED <<repositories, connections, pullRequests, reviewComments,
                 request, handler, response, calls, unit, apiVars>>

\* The update of the catch block; on failure processReview rejects into the
\* .catch of triggerReview.
TaskMarkError(d, ok) ==
  /\ task[d].pc = "markError"
  /\ IF ok
       THEN /\ reviews' = UpdateReview(reviews, task[d].reviewId, "error", "set",
                                       <<"Review failed: ">> \o task[d].error,
                                       reviews[task[d].reviewId].tokensUsed)
            /\ task' = [task EXCEPT ![d].pc = "finished"]
            /\ UNCHANGED log
       ELSE /\ Reject(d, DbError)
            /\ UNCHANGED reviews
  /\ UNCHANGED <<repositories, connections, pullRequests, reviewComments,
                 request, handler, response, calls, unit, apiVars>>

(***************************************************************************)
(* The diff filter, the analysis engine and the request builders applied   *)
(* to inputs drawn from bounded sets: what fetchDiff, analyzeWithAI and    *)
(* postGitHubReview compute for any answer of the diff host and of the AI. *)
(***************************************************************************)
\* Longest list of files in an answer of the diff host.
MaxFiles == 3

\* Longest list of comments in an answer of the AI provider.
MaxComments == 2

\* All sequences over S of length at most n.
SeqsUpTo(S, n) == UNION { [1..k -> S] : k \in 0..n }

\* More files an answer of the diff host may hold: an empty patch, a patch
\* of exactly the ceiling, one above it, and two denylisted paths.
EmptyPatchFile == [filename |-> <<"e", ".", "t", "s">>,
                   patch |-> [present |-> TRUE, length |-> 0], status |-> "modified"]

LimitFile == [filename |-> <<"b", ".", "t", "s">>,
              patch |-> [present |-> TRUE, length |-> MaxPatchLength],
              status |-> "added"]

HugeFile == [filename |-> <<"h", ".", "t", "s">>,
             patch |-> [present |-> TRUE, length |-> MaxPatchLength + 1],
             status |-> "modified"]

DistFile == [filename |-> <<"d", "i", "s", "t", "/", "x", ".", "j", "s">>,
             patch |-> [present |-> TRUE, length |-> 30], status |-> "removed"]

MinFile == [filename |-> <<"a", ".", "m", "i", "n", ".", "j", "s">>,
            patch |-> [present |-> TRUE, length |-> 30], status |-> "modified"]

UnitFiles ==
  { SourceFile, LockFile, BinaryFile, EmptyPatchFile, LimitFile, HugeFile,
    DistFile, MinFile }

\* Six patches of the ceiling's size do not fit the prompt: the sixth file and
\* the small file after it are left out.
LongFileList ==
  <<LimitFile, LimitFile, LimitFile, LimitFile, LimitFile, LimitFile, SourceFile>>

\* The page size of the request to the diff host: ?per_page=100.
PerPage == 100

\* The i-th file of a large pull request, a source file or an image (the
\* host sends no patch for a binary file).
NumberedFile(i, extension, hasPatch) ==
  [filename |-> <<"f", ToString(i \div 100), ToString((i \div 10) % 10),
                  ToString(i % 10), ".">> \o extension,
   patch |-> [present |-> hasPatch, length |-> IF hasPatch THEN 120 ELSE 0],
   status |-> "modified"]

\* A pull request with one changed file more than a page holds: a source
\* file, images, and a source file in the last place.
ManyFilesList ==
  [i \in 1..(PerPage + 1) |->
     IF i \in {1, PerPage + 1} THEN NumberedFile(i, <<"t", "s">>, TRUE)
                               ELSE NumberedFile(i, <<"p", "n", "g">>, FALSE)]

\* The changed files of the pull requests the diff source is asked for.
UnitFileLists == SeqsUpTo(UnitFiles, MaxFiles) \cup {LongFileList, ManyFilesList}

\* The body of the answer to the one request fetchDiff sends,
\* GET .../pulls/{number}/files?per_page=100 with no page parameter: the
\* host answers with its first page, the first PerPage changed files.
FetchedFiles(changed) ==
  SubSeq(changed, 1, IF Len(changed) < PerPage THEN Len(changed) ELSE PerPage)

\* A comment of the AI with every field chosen.
RawComment(path, lineIsNumber, body, category, severity) ==
  [filePath |-> path, line |-> [isNumber |-> lineIsNumber, value |-> 7],
   body |-> body, category |-> category, severity |-> severity]

\* Comments the AI may return: well formed, with an unknown category or
\* severity, with a line that is not a number, on a file that was filtered
\* out, on a file that is not in the diff, without a path, without a body.
UnitComments ==
  { RawComment(SourceFile.filename, TRUE, <<"fix this">>, "bug", "error"),
    RawComment(SourceFile.filename, TRUE, <<"fix this">>, "nitpick", "fatal"),
    RawComment(LimitFile.filename, TRUE, <<"rename">>, "style", "warning"),
    RawComment(SourceFile.filename, FALSE, <<"fix this">>, "bug", "error"),
    RawComment(LockFile.filename, TRUE, <<"fix this">>, "security", "info"),
    RawComment(<<"z", ".", "t", "s">>, TRUE, <<"fix this">>, "bug", "fatal"),
    RawComment(<<>>, TRUE, <<"fix this">>, "bug", "error"),
    RawComment(SourceFile.filename, TRUE, <<>>, "nitpick", "warning") }

\* response.usage?.prompt_tokens and completion_tokens: missing, or a count.
UnitTokenCounts == { {}, {50}, {900} }

\* The answers of the AI provider the engine is applied to.
UnitCompletions ==
  { [throws |-> TRUE, content |-> "empty", summary |-> <<>>, comments |-> <<>>,
     prompt_tokens |-> {}, completion_tokens |-> {}] }
  \cup { [throws |-> FALSE, content |-> c, summary |-> <<>>, comments |-> <<>>,
          prompt_tokens |-> pt, completion_tokens |-> ct] :
           c \in {"empty", "unparseable", "json"},
           pt \in UnitTokenCounts, ct \in UnitTokenCounts }
  \cup { [throws |-> FALSE, content |-> "json", summary |-> <<"Needs work.">>,
          comments |-> cs, prompt_tokens |-> {900}, completion_tokens |-> {100}] :
           cs \in SeqsUpTo(UnitComments, MaxComments) }

\* unit.ai before the engine is applied.
NoCompletion ==
  [throws |-> FALSE, content |-> "none", summary |-> <<>>, comments |-> <<>>,
   prompt_tokens |-> {}, completion_tokens |-> {}]

\* unit.result before the engine has returned.
NoResult == [comments |-> <<>>, summary |-> <<>>, tokensUsed |-> 0]

\* The unit before any input is given.
IdleUnit ==
  [pc |-> "idle", changed |-> <<>>, files |-> <<>>, reviewable |-> <<>>,
   ai |-> NoCompletion,
   included |-> <<>>, result |-> NoResult, primary |-> NoPayload,
   fallback |-> NoPayload]

pipelineVars == <<repositories, connections, pullRequests, reviews, reviewComments,
                  request, handler, response, task, log, calls, apiVars>>

\* fetchDiff on a pull request whose changed files at the host are
\* unit.changed: the one request, files = await response.json(), the filter.
UnitFetchDiff ==
  /\ unit.pc = "start"
  /\ unit' = [unit EXCEPT !.files = FetchedFiles(unit.changed),
                          !.reviewable = FilterFiles(FetchedFiles(unit.changed)),
                          !.pc = "filtered"]
  /\ UNCHANGED pipelineVars

\* analyzeWithAI on the files the filter left, called when there is one.
\* fetchDiff has returned: its local files is gone (and the pull request at
\* the host is not looked at again), the engine is handed the filtered list
\* alone.
UnitAnalyze(ai) ==
  /\ unit.pc = "filtered"
  /\ Len(unit.reviewable) > 0
  /\ unit' = IF AnalysisThrows(ai)
               THEN [unit EXCEPT !.changed = <<>>, !.files = <<>>, !.ai = ai,
                                 !.pc = "threw",
                                 !.included = IncludedFiles(unit.reviewable)]
               ELSE [unit EXCEPT !.changed = <<>>, !.files = <<>>, !.ai = ai,
                                 !.pc = "analyzed",
                                 !.included = IncludedFiles(unit.reviewable),
                                 !.result = AnalysisResult(unit.reviewable, ai)]
  /\ UNCHANGED pipelineVars

\* postGitHubReview on what the engine returned: the request with inline
\* comments and the body-only request of its catch block.
UnitPostReview ==
  /\ unit.pc = "analyzed"
  /\ unit' = [unit EXCEPT
       !.primary = PrimaryRequest(unit.result.comments, unit.result.summary),
       !.fallback = FallbackRequest(unit.result.comments, unit.result.summary),
       !.pc = "posted"]
  /\ UNCHANGED pipelineVars

(***************************************************************************)
(* The stored OpenAI key of a user: services/crypto, the settings routes   *)
(* that write it and resolveOpenAIApiKeyForReview that reads it.           *)
(***************************************************************************)
\* The users that have signed in.
UserIds == {"u1", "u2", "u3"}

\* process.env.OPENAI_API_KEY, the key of the shared client.
ServerOpenAIKey == "sk-server"

\* Values of APP_ENCRYPTION_KEY a deployment may run with.
EncryptionKeys == {"k1", "k2"}

\* Bodies of POST /api/settings/openai: the key, its length and its first
\* three characters.
ApiKeyInputs ==
  { [text |-> "sk-alice-0001", length |-> 13, prefix |-> "sk-"],
    [text |-> "sk-bob-00002", length |-> 12, prefix |-> "sk-"],
    [text |-> "pk-wrong-0003", length |-> 13, prefix |-> "pk-"],
    [text |-> "sk-short", length |-> 8, prefix |-> "sk-"] }

\* A User row without a stored key: the three columns are null.
NoStoredKey ==
  [openaiApiKeyEnc |-> {}, openaiApiKeyIv |-> {}, openaiApiKeyTag |-> {}]

\* encryptString under key k: AES-256-GCM, the ciphertext and the tag are
\* bound to the key and the plaintext.
EncryptString(plaintext, k) ==
  [openaiApiKeyEnc |-> {<<"enc", k, plaintext>>},
   openaiApiKeyIv |-> {"iv"},
   openaiApiKeyTag |-> {<<"tag", k, plaintext>>}]

\* decryptString of a row whose three columns are set, under the keys the
\* process has: getKey throws without APP_ENCRYPTION_KEY, decipher.final
\* throws when the tag was not made with this key for this ciphertext.
DecryptString(u, keys) ==
  LET enc == CHOOSE e \in u.openaiApiKeyEnc : TRUE
      tag == CHOOSE t \in u.openaiApiKeyTag : TRUE
  IN  IF keys = {} \/ enc[2] \notin keys \/ tag # <<"tag", enc[2], enc[3]>>
        THEN [throws |-> TRUE, value |-> {}]
        ELSE [throws |-> FALSE, value |-> {enc[3]}]

\* pr?.repository?.user for the pull request with this id, as a set.
OwnerOfPullRequest(prId) ==
  { users[repo.userId] :
      repo \in { r \in repositories :
                   \E pr \in pullRequests : pr.id = prId /\ pr.repoId = r.id
                                            /\ r.userId \in DOMAIN users } }

\* A resolution that asks for the server key first.
ResolveOpenAIApiKeyForReview_ServerFirst(prId, keys) ==
  [throws |-> FALSE, value |-> {ServerOpenAIKey}]

\* resolveOpenAIApiKeyForReview: the stored key of the owner when the three
\* columns are set, process.env.OPENAI_API_KEY otherwise.
ResolveOpenAIApiKeyForReview(prId, keys) ==
  LET owner == OwnerOfPullRequest(prId)
  IN  IF \E u \in owner : /\ u.openaiApiKeyEnc # {}
                          /\ u.openaiApiKeyIv # {}
                          /\ u.openaiApiKeyTag # {}
        THEN DecryptString(CHOOSE u \in owner : TRUE, keys)
        ELSE [throws |-> FALSE, value |-> {ServerOpenAIKey}]

\* apiKey ? new OpenAI({ apiKey }) : openai: the key of the client the
\* completion is requested with.
ClientKey(apiKey) ==
  IF apiKey # {} THEN CHOOSE k \in apiKey : TRUE ELSE ServerOpenAIKey

\* keyUse before any resolution.
NoKeyUse == [pc |-> "idle", prId |-> 0, credential |-> "none"]

\* POST /api/settings/openai for an authenticated user: a body that fails
\* the schema or the prefix guard is answered 400, a failing encryptString
\* 500, and otherwise the three columns are written together.
SettingsPostOpenAI(userId, apiKey) ==
  /\ IF apiKey.length >= 10 /\ apiKey.prefix = "sk-" /\ encryptionKey # {}
       THEN users' = [users EXCEPT ![userId] =
                        EncryptString(apiKey.text, CHOOSE k \in encryptionKey : TRUE)]
       ELSE UNCHANGED users
  /\ UNCHANGED <<encryptionKey, keyUse, webhookVars, listing, http, stateStore, oauth>>

\* DELETE /api/settings/openai: the three columns are set to null together.
SettingsDeleteOpenAI(userId) ==
  /\ users' = [users EXCEPT ![userId] = NoStoredKey]
  /\ UNCHANGED <<encryptionKey, keyUse, webhookVars, listing, http, stateStore, oauth>>

\* The process is started again with another APP_ENCRYPTION_KEY, or with
\* none: getKey reads the variable on every call.
Redeploy(keys) ==
  /\ encryptionKey # keys
  /\ encryptionKey' = keys
  /\ UNCHANGED <<users, keyUse, webhookVars, listing, http, stateStore, oauth>>

\* analyzeWithAI, from the key lookup to the client the completion is
\* requested with; a throw of the lookup leaves analyzeWithAI before any
\* client is used.
AnalyzeResolveKey(prId) ==
  /\ LET apiKey == ResolveOpenAIApiKeyForReview(prId, encryptionKey)
     IN  keyUse' = IF apiKey.throws
                     THEN [pc |-> "threw", prId |-> prId, credential |-> "none"]
                     ELSE [pc |-> "called", prId |-> prId,
                           credential |-> ClientKey(apiKey.value)]
  /\ UNCHANGED <<users, encryptionKey, webhookVars, listing, http, stateStore, oauth>>

(***************************************************************************)
(* GET /api/github/repos: the paginated listing of the user's              *)
(* repositories at the code host.                                          *)
(***************************************************************************)
\* The longest list the code host holds, in pages.
MaxPages == 2

\* const perPage = 100
ListPerPage == 100

\* The answers of the code host to one page request: a failure, or a page
\* of some length with or without a Link header that has rel="next".
PageAnswers ==
  { [ok |-> FALSE, length |-> 0, hasNext |-> FALSE] }
  \cup { [ok |-> TRUE, length |-> n, hasNext |-> h] :
           n \in {0, 40, ListPerPage}, h \in BOOLEAN }

\* The page after the end of the list.
EmptyPage == [ok |-> TRUE, length |-> 0, hasNext |-> FALSE]

RECURSIVE SeqsOfLength(_, _)
SeqsOfLength(S, n) ==
  IF n = 0 THEN {<<>>}
  ELSE { Append(s, x) : s \in SeqsOfLength(S, n - 1), x \in S }

\* What the code host answers page by page; past the end it answers with
\* empty pages.
HostScripts == UNION { SeqsOfLength(PageAnswers, n) : n \in 0..MaxPages }

\* The answer of the code host to the request of page p.
PageAnswer(host, p) == IF p <= Len(host) THEN host[p] ELSE EmptyPage

\* listing before the route is called.
NoListing ==
  [pc |-> "idle", host |-> <<>>, page |-> 0, token |-> "none",
   requested |-> <<>>, repos |-> <<>>]

\* A loop that goes on until both signals say the list has ended.
StopsAfter_BothSignals(a) == ~a.hasNext /\ a.length < ListPerPage

\* if (!hasNext || pageRepos.length < perPage) break
StopsAfter(a) == ~a.hasNext \/ a.length < ListPerPage

\* The handler up to the loop: the connection of the user is read, and
\* without one the request is refused.
ListStart(userId) ==
  /\ listing.pc = "idle"
  /\ LET connection == {c \in connections : c.userId = userId}
     IN  listing' = IF connection = {}
                      THEN [listing EXCEPT !.pc = "rejected"]
                      ELSE [listing EXCEPT !.pc = "fetching", !.page = 1,
                              !.token = (CHOOSE c \in connection : TRUE).accessToken]
  /\ UNCHANGED <<webhookVars, users, encryptionKey, keyUse, http, stateStore, oauth>>

\* One turn of the loop: the request of the current page, and what the
\* loop does with the answer.  A thrown githubFetch leaves the loop through
\* the catch block; a break is followed by res.json of the collected pages.
ListFetchPage ==
  /\ listing.pc = "fetching"
  /\ LET a == PageAnswer(listing.host, listing.page)
         asked == [listing EXCEPT !.requested = Append(@, listing.page)]
     IN  listing' =
           IF ~a.ok THEN [asked EXCEPT !.pc = "failed"]
           ELSE IF a.length = 0 THEN [asked EXCEPT !.pc = "done"]
           ELSE LET pushed == [asked EXCEPT !.repos =
                                 Append(@, [page |-> listing.page, length |-> a.length])]
                IN  IF StopsAfter(a)
                      THEN [pushed EXCEPT !.pc = "done"]
                      ELSE [pushed EXCEPT !.page = @ + 1]
  /\ UNCHANGED <<webhookVars, users, encryptionKey, keyUse, http, stateStore, oauth>>

(***************************************************************************)
(* The HTTP API: the middleware stack of index.ts, requireAuth, and the    *)
(* handlers of the routers.                                                *)
(***************************************************************************)
\* The number of API requests that may be in flight together.
MaxClients == 2

Clients == 1..MaxClients

\* process.env.JWT_SECRET
JwtSecret == "jwt-secret"

\* Authorization headers: none, one that is not a Bearer header, and Bearer
\* tokens signed with some key for some user, expired or not.
NoAuth == [scheme |-> "none", signedWith |-> "none", expired |-> FALSE, userId |-> "none"]

BearerOf(userId) ==
  [scheme |-> "Bearer", signedWith |-> JwtSecret, expired |-> FALSE, userId |-> userId]

InvalidAuths ==
  { NoAuth,
    [scheme |-> "Basic", signedWith |-> JwtSecret, expired |-> FALSE, userId |-> "u1"],
    [scheme |-> "Bearer", signedWith |-> "guess", expired |-> FALSE, userId |-> "u1"],
    [scheme |-> "Bearer", signedWith |-> JwtSecret, expired |-> TRUE, userId |-> "u1"] }

\* requireAuth: the header must start with "Bearer " and jwt.verify must
\* accept the token; every other header makes the middleware throw.
RequireAuthPasses(auth) ==
  auth.scheme = "Bearer" /\ auth.signedWith = JwtSecret /\ ~auth.expired

\* The app-level stack of index.ts, in the order of the app.use calls.
Stack ==
  << [mount |-> <<"auth">>, use |-> "authRoutes"],
     [mount |-> <<>>, use |-> "githubAuthRoutes"],
     [mount |-> <<"webhooks">>, use |-> "webhookRoutes"],
     [mount |-> <<"api">>, use |-> "requireAuth"],
     [mount |-> <<"api", "repositories">>, use |-> "repositoryRoutes"],
     [mount |-> <<"api", "pull-requests">>, use |-> "pullRequestRoutes"],
     [mount |-> <<"api", "reviews">>, use |-> "reviewRoutes"],
     [mount |-> <<"api", "stats">>, use |-> "statsRoutes"] >>

\* A route of a router: method, path below the mount point (":id" stands
\* for a parameter), whether requireAuth is given inline, whether the
\* handler is wrapped in asyncHandler, and the handler.
Route(method, path, guarded, wrapped, name) ==
  [method |-> method, path |-> path, guarded |-> guarded, wrapped |-> wrapped,
   name |-> name]

\* The routes of each router.
RoutesOf(router) ==
  CASE router = "authRoutes" ->
         { Route("POST", <<"google">>, FALSE, TRUE, "auth.google") }
    [] router = "githubAuthRoutes" ->
         { Route("GET", <<"auth", "github">>, FALSE, FALSE, "github.start"),
           Route("GET", <<"auth", "github", "callback">>, FALSE, FALSE, "github.callback"),
           Route("GET", <<"api", "github", "status">>, TRUE, FALSE, "github.status"),
           Route("GET", <<"api", "github", "repos">>, TRUE, FALSE, "github.repos"),
           Route("POST", <<"api", "github", "repos", "enable">>, TRUE, FALSE, "github.enable"),
           Route("DELETE", <<"api", "github", "repos", ":id", "disable">>, TRUE, FALSE,
                 "github.disable"),
           Route("DELETE", <<"api", "github", "disconnect">>, TRUE, FALSE,
                 "github.disconnect") }
    [] router = "webhookRoutes" ->
         { Route("POST", <<"github">>, FALSE, TRUE, "webhooks.github") }
    [] router = "repositoryRoutes" ->
         { Route("GET", <<>>, FALSE, TRUE, "repositories.list"),
           Route("POST", <<>>, FALSE, TRUE, "repositories.create"),
           Route("GET", <<":id">>, FALSE, TRUE, "repositories.get"),
           Route("DELETE", <<":id">>, FALSE, TRUE, "repositories.delete") }
    [] router = "pullRequestRoutes" ->
         { Route("GET", <<>>, FALSE, TRUE, "pullRequests.list"),
           Route("GET", <<":id">>, FALSE, TRUE, "pullRequests.get") }
    [] router = "reviewRoutes" ->
         { Route("GET", <<":id">>, FALSE, TRUE, "reviews.get") }
    [] router = "statsRoutes" ->
         { Route("GET", <<>>, FALSE, TRUE, "stats.get") }
    [] OTHER -> {}

\* mount is a prefix of path.
IsPrefix(mount, path) ==
  /\ Len(mount) <= Len(path)
  /\ \A i \in 1..Len(mount) : mount[i] = path[i]

\* path without its first n segments.
Rest(path, n) == SubSeq(path, n + 1, Len(path))

\* A route pattern matches a path segment by segment; ":id" matches any one.
Matches(pattern, path) ==
  /\ Len(pattern) = Len(path)
  /\ \A i \in 1..Len(pattern) : pattern[i] = ":id" \/ pattern[i] = path[i]

\* The routes of a router that a request below its mount point selects.
Selected(router, method, path) ==
  { r \in RoutesOf(router) : r.method = method /\ Matches(r.path, path) }

\* A stack in which the routers of /api are reached before requireAuth.
Dispatch_RoutersFirst(i, method, path, auth) ==
  LET hits == { r \in UNION { Selected(Stack[j].use, method, Rest(path, Len(Stack[j].mount))) :
                                j \in { k \in 1..Len(Stack) : IsPrefix(Stack[k].mount, path) } } :
                  TRUE }
  IN  IF hits = {} THEN [outcome |-> "notFound", route |-> Route("", <<>>, FALSE, FALSE, "none")]
      ELSE [outcome |-> "handler", route |-> CHOOSE r \in hits : TRUE]

\* Express walks the stack from entry i: a middleware whose mount point is a
\* prefix of the path runs; requireAuth throws or calls next(); a router
\* runs the route that matches, behind its inline requireAuth if it has
\* one, or calls next() when none matches.  Past the last entry the request
\* is not found.
RECURSIVE Dispatch(_, _, _, _)
Dispatch(i, method, path, auth) ==
  IF i > Len(Stack)
    THEN [outcome |-> "notFound", route |-> Route("", <<>>, FALSE, FALSE, "none")]
  ELSE IF ~IsPrefix(Stack[i].mount, path)
    THEN Dispatch(i + 1, method, path, auth)
  ELSE IF Stack[i].use = "requireAuth"
    THEN IF RequireAuthPasses(auth)
           THEN Dispatch(i + 1, method, path, auth)
           ELSE [outcome |-> "unauthorized", route |-> Route("", <<>>, FALSE, FALSE, "none")]
  ELSE LET hits == Selected(Stack[i].use, method, Rest(path, Len(Stack[i].mount)))
       IN  IF hits = {} THEN Dispatch(i + 1, method, path, auth)
           ELSE LET r == CHOOSE h \in hits : TRUE
                IN  IF r.guarded /\ ~RequireAuthPasses(auth)
                      THEN [outcome |-> "unauthorized", route |-> r]
                      ELSE [outcome |-> "handler", route |-> r]

\* An API request: method, path, Authorization header, the full name in
\* its body ("" when the body has none) and the id it names, in the path
\* (where the path then has ":id") or as the repoId of the query ("" when
\* it names none).
ApiRequest(method, path, auth, fullName) ==
  [method |-> method, path |-> path, auth |-> auth, fullName |-> fullName, id |-> ""]

\* The request with an id.
WithId(req, id) == [req EXCEPT !.id = id]

\* http[c] before client c has sent its request.
NoHttp ==
  [pc |-> "idle", request |-> ApiRequest("", <<>>, NoAuth, ""),
   route |-> "none", wrapped |-> FALSE, userId |-> "none",
   dbCalls |-> 0, thrown |-> 0, status |-> 0, result |-> {}]

\* The id the store gives the row a request creates.
NewRepositoryId(c) == <<"r4", "r5", "r6", "r7">>[c]

\* The inline error handler of index.ts answers every error it is given
\* with 500.
ErrorHandlerStatus(err) == 500

\* What becomes of an error thrown by a handler.  asyncHandler hands it to
\* the error handler of the app.  A rejected promise of a handler that is
\* not wrapped is handed over as well by an Express that awaits handlers,
\* and is dropped by one that does not: the request is then never answered
\* (status 0).
ThrownOutcomes(wrapped, err) ==
  IF wrapped THEN {ErrorHandlerStatus(err)} ELSE {0, ErrorHandlerStatus(err)}

\* Client c's handler throws err.
Throws(c, err, dbCalls) ==
  \E s \in ThrownOutcomes(http[c].wrapped, err) :
    http' = [http EXCEPT ![c].pc = "done", ![c].thrown = err, ![c].status = s,
                         ![c].dbCalls = @ + dbCalls]

\* Client c's handler answers with status and result.
Answers(c, status, result, dbCalls) ==
  http' = [http EXCEPT ![c].pc = "done", ![c].status = status,
                       ![c].result = result, ![c].dbCalls = @ + dbCalls]

\* Client c's handler goes on at pc after its await.
GoesOn(c, pc, dbCalls) ==
  http' = [http EXCEPT ![c].pc = pc, ![c].dbCalls = @ + dbCalls]

\* A request arrives and runs down the stack, in one turn of the event
\* loop, to the first await of its handler.  A throw of requireAuth is
\* synchronous and reaches the error handler; a request no route matches is
\* answered 404 by Express.
ApiReceive(c, req) ==
  /\ http[c].pc = "idle"
  /\ LET d == Dispatch(1, req.method, req.path, req.auth)
         got == [http[c] EXCEPT !.request = req]
     IN  http' = [http EXCEPT ![c] =
           CASE d.outcome = "unauthorized" ->
                  [got EXCEPT !.pc = "done", !.thrown = 401,
                              !.status = ErrorHandlerStatus(401)]
             [] d.outcome = "notFound" ->
                  [got EXCEPT !.pc = "done", !.status = 404]
             [] d.outcome = "handler" ->
                  [got EXCEPT !.pc = "handler", !.route = d.route.name,
                              !.wrapped = d.route.wrapped,
                              !.userId = req.auth.userId]]
  /\ UNCHANGED <<webhookVars, users, encryptionKey, keyUse, listing, stateStore, oauth>>

\* The part of every frame of a handler step that leaves the store alone
\* but for the tables named.
ApiFrame ==
  UNCHANGED <<request, handler, response, task, log, calls, unit,
              users, encryptionKey, keyUse, listing, stateStore, oauth>>

\* POST /api/repositories up to prisma.repository.create: a body without a
\* full name fails the schema, a registered full name is refused.
RepositoriesCreateFind(c) ==
  /\ http[c].pc = "handler" /\ http[c].route = "repositories.create"
  /\ IF http[c].request.fullName = ""
       THEN Throws(c, 400, 0)
     ELSE IF \E r \in repositories : r.fullName = http[c].request.fullName
       THEN Throws(c, 409, 1)
     ELSE GoesOn(c, "create", 1)
  /\ UNCHANGED dbVars /\ ApiFrame

\* prisma.repository.create: fullName is a unique column (it is the key of
\* findUnique), so the store refuses a second row with the same full name.
CreateRepository(rows, id, fullName, userId) ==
  IF \E r \in rows : r.fullName = fullName
    THEN [refused |-> TRUE, rows |-> rows]
    ELSE [refused |-> FALSE,
          rows |-> rows \cup { [id |-> id, fullName |-> fullName, userId |-> userId,
                                webhookSecret |-> Null, rules |-> Null] }]

\* The rest of POST /api/repositories: the create and the 201 answer.
RepositoriesCreateInsert(c) ==
  /\ http[c].pc = "create" /\ http[c].route = "repositories.create"
  /\ LET made == CreateRepository(repositories, NewRepositoryId(c),
                                  http[c].request.fullName, http[c].userId)
     IN  /\ repositories' = made.rows
         /\ IF made.refused
              THEN Throws(c, 500, 1)
              ELSE Answers(c, 201, {NewRepositoryId(c)}, 1)
  /\ UNCHANGED <<connections, pullRequests, reviews, reviewComments>> /\ ApiFrame

\* POST /api/github/repos/enable up to githubFetch: the body must name a
\* repository and the user must have a connection.
EnableFindConnection(c) ==
  /\ http[c].pc = "handler" /\ http[c].route = "github.enable"
  /\ IF http[c].request.fullName = ""
       THEN Throws(c, 400, 0)
     ELSE IF ~\E conn \in connections : conn.userId = http[c].userId
       THEN Throws(c, 400, 1)
     ELSE GoesOn(c, "fetch", 1)
  /\ UNCHANGED dbVars /\ ApiFrame

\* The answer of the code host to GET /repos/{full name}: a status other
\* than 2xx makes githubFetch throw "GitHub API error: <status>", and the
\* catch block turns a message with "404" into 404 and any other into 500.
EnableFetch(c, hostStatus) ==
  /\ http[c].pc = "fetch" /\ http[c].route = "github.enable"
  /\ IF hostStatus = 200 THEN GoesOn(c, "create", 0)
     ELSE IF hostStatus = 404 THEN Throws(c, 404, 0)
     ELSE Throws(c, 500, 0)
  /\ UNCHANGED dbVars /\ ApiFrame

\* The rest of POST /api/github/repos/enable: the create, with no look-up
\* of the full name before it; a refused create is caught and thrown again
\* as 500.
EnableInsert(c) ==
  /\ http[c].pc = "create" /\ http[c].route = "github.enable"
  /\ LET made == CreateRepository(repositories, NewRepositoryId(c),
                                  http[c].request.fullName, http[c].userId)
     IN  /\ repositories' = made.rows
         /\ IF made.refused
              THEN Throws(c, 500, 1)
              ELSE Answers(c, 201, {NewRepositoryId(c)}, 1)
  /\ UNCHANGED <<connections, pullRequests, reviews, reviewComments>> /\ ApiFrame

\* A look-up of repositories by id alone.
FindRepositoryOfUser_AnyOwner(rows, id, userId) == { r \in rows : r.id = id }

\* prisma.repository.findMany / findFirst / deleteMany with where: { id,
\* userId }; id "" stands for a where without id.
FindRepositoryOfUser(rows, id, userId) ==
  { r \in rows : r.userId = userId /\ (id = "" \/ r.id = id) }

\* prisma.pullRequest.findMany / findFirst with where: { repository: {
\* userId } } and, when given, the id of the row or of its repository.
FindPullRequest(prs, repos, id, repoId, userId) ==
  { p \in prs : /\ \E r \in repos : r.id = p.repoId /\ r.userId = userId
                /\ (id = "" \/ ToString(p.id) = id)
                /\ (repoId = "" \/ p.repoId = repoId) }

\* A look-up of a review by id alone.
FindReview_AnyOwner(revs, prs, repos, id, userId) ==
  { revs[i] : i \in { j \in DOMAIN revs : ToString(revs[j].id) = id } }

\* prisma.review.findFirst with where: { id, pullRequest: { repository: {
\* userId } } }.
FindReview(revs, prs, repos, id, userId) ==
  { revs[i] : i \in { j \in DOMAIN revs :
      /\ ToString(revs[j].id) = id
      /\ \E p \in prs : /\ p.id = revs[j].prId
                         /\ \E r \in repos : r.id = p.repoId /\ r.userId = userId } }

\* GET /api/repositories: the repositories of the user.
RepositoriesList(c) ==
  /\ http[c].pc = "handler" /\ http[c].route = "repositories.list"
  /\ Answers(c, 200, { r.id : r \in FindRepositoryOfUser(repositories, "", http[c].userId) }, 1)
  /\ UNCHANGED dbVars /\ ApiFrame

\* GET /api/repositories/:id
RepositoriesGet(c) ==
  /\ http[c].pc = "handler" /\ http[c].route = "repositories.get"
  /\ LET found == FindRepositoryOfUser(repositories, http[c].request.id, http[c].userId)
     IN  IF found = {} THEN Throws(c, 404, 1)
         ELSE Answers(c, 200, { r.id : r \in found }, 1)
  /\ UNCHANGED dbVars /\ ApiFrame

\* DELETE /api/repositories/:id: deleteMany of the rows with this id and
\* this user; the pull requests of a deleted repository go with it.
RepositoriesDelete(c) ==
  /\ http[c].pc = "handler" /\ http[c].route = "repositories.delete"
  /\ LET deleted == FindRepositoryOfUser(repositories, http[c].request.id, http[c].userId)
     IN  /\ repositories' = repositories \ deleted
         /\ pullRequests' = { p \in pullRequests : \A r \in deleted : p.repoId # r.id }
         /\ IF deleted = {} THEN Throws(c, 404, 1)
            ELSE Answers(c, 204, {}, 1)
  /\ UNCHANGED <<connections, reviews, reviewComments>> /\ ApiFrame

\* GET /api/pull-requests, with or without repoId: the pull requests of
\* the repositories of the user, and their count.
PullRequestsList(c) ==
  /\ http[c].pc = "handler" /\ http[c].route = "pullRequests.list"
  /\ Answers(c, 200,
             { ToString(p.id) : p \in FindPullRequest(pullRequests, repositories, "",
                                                      http[c].request.id, http[c].userId) },
             2)
  /\ UNCHANGED dbVars /\ ApiFrame

\* GET /api/pull-requests/:id
PullRequestsGet(c) ==
  /\ http[c].pc = "handler" /\ http[c].route = "pullRequests.get"
  /\ LET found == FindPullRequest(pullRequests, repositories, http[c].request.id, "",
                                  http[c].userId)
     IN  IF found = {} THEN Throws(c, 404, 1)
         ELSE Answers(c, 200, { ToString(p.id) : p \in found }, 1)
  /\ UNCHANGED dbVars /\ ApiFrame

\* GET /api/reviews/:id
ReviewsGet(c) ==
  /\ http[c].pc = "handler" /\ http[c].route = "reviews.get"
  /\ LET found == FindReview(reviews, pullRequests, repositories, http[c].request.id,
                             http[c].userId)
     IN  IF found = {} THEN Throws(c, 404, 1)
         ELSE Answers(c, 200, { ToString(r.id) : r \in found }, 1)
  /\ UNCHANGED dbVars /\ ApiFrame

\* The handlers of the routes that are followed elsewhere or not at all
\* (the webhook, the sign-in, the OAuth start, the statistics): the handler
\* runs and answers.
OtherHandlerRuns(c) ==
  /\ http[c].pc = "handler"
  /\ http[c].route \in {"webhooks.github", "auth.google", "github.start", "stats.get",
                        "github.status"}
  /\ Answers(c, 200, {}, 1)
  /\ UNCHANGED dbVars /\ ApiFrame

(***************************************************************************)
(* The OAuth flow with the code host: GET /auth/github issues a state,     *)
(* GET /auth/github/callback uses it.                                      *)
(***************************************************************************)
\* The number of states the model lets GET /auth/github issue.
MaxStates == 2

\* The age, in periods of five minutes, past which the cleaner removes an
\* entry: now - createdAt > TEN_MINUTES.
ExpiryPeriods == 2

\* stateStore when the process starts: an empty Map.  issued lists the
\* users the states were issued to, in the order of issue: state i is the
\* i-th value of crypto.randomUUID().
EmptyStateStore == [issued |-> <<>>, map |-> {}]

\* The state parameters a callback may carry: an issued one, one that was
\* never issued, or none (0).
CallbackStates == (1..MaxStates) \cup {99, 0}

\* The code parameters a callback may carry: none, one the code host
\* refuses, and one for each of two accounts at the code host.
CallbackCodes == {"none", "refused", "code-gh-1", "code-gh-9"}

\* The account at the code host a code was granted by.
AccountOf(code) == IF code = "code-gh-1" THEN "gh-1" ELSE "gh-9"

\* oauth[b] before browser b has been sent to the callback.
NoCallback ==
  [pc |-> "idle", state |-> 0, code |-> "none", userId |-> "none",
   accessToken |-> "none", githubId |-> "none", created |-> FALSE,
   redirect |-> "none"]

OAuthFrame ==
  UNCHANGED <<repositories, pullRequests, reviews, reviewComments,
              request, handler, response, task, log, calls, unit,
              users, encryptionKey, keyUse, listing, http>>

\* GET /auth/github: the token of the query or of the header is verified,
\* a new state is stored with the user of the token, and the browser is
\* sent to the code host.  A request without a valid token throws before
\* anything is stored.
OAuthStart(auth) ==
  /\ Len(stateStore.issued) < MaxStates
  /\ IF auth.scheme \in {"Bearer", "query"} /\ auth.signedWith = JwtSecret /\ ~auth.expired
       THEN stateStore' =
              [issued |-> Append(stateStore.issued, auth.userId),
               map |-> stateStore.map \cup
                         { [state |-> Len(stateStore.issued) + 1,
                            userId |-> auth.userId, age |-> 0] }]
       ELSE UNCHANGED stateStore
  /\ UNCHANGED <<connections, oauth>> /\ OAuthFrame

\* Five minutes pass.
OAuthTimePasses ==
  /\ \E e \in stateStore.map : e.age <= ExpiryPeriods
  /\ stateStore' = [stateStore EXCEPT !.map =
       { [e EXCEPT !.age = IF e.age <= ExpiryPeriods THEN e.age + 1 ELSE e.age] :
           e \in stateStore.map }]
  /\ UNCHANGED <<connections, oauth>> /\ OAuthFrame

\* The interval callback: every entry older than ten minutes is deleted.
OAuthCleanUp ==
  /\ \E e \in stateStore.map : e.age > ExpiryPeriods
  /\ stateStore' = [stateStore EXCEPT !.map = { e \in @ : e.age <= ExpiryPeriods }]
  /\ UNCHANGED <<connections, oauth>> /\ OAuthFrame

\* A callback that leaves the state in the store.
AfterUse_Kept(map, state) == map

\* stateStore.delete(state)
AfterUse(map, state) == { e \in map : e.state # state }

\* GET /auth/github/callback up to the first await: the parameters are
\* checked, the state is looked up and deleted in the same turn of the
\* event loop, and the exchange of the code is requested.
OAuthCallback(b, state, code) ==
  /\ oauth[b].pc = "idle"
  /\ LET got == [oauth[b] EXCEPT !.state = state, !.code = code]
         entry == { e \in stateStore.map : e.state = state }
     IN  IF code = "none"
           THEN /\ oauth' = [oauth EXCEPT ![b] =
                       [got EXCEPT !.pc = "done", !.redirect = "missing_code"]]
                /\ UNCHANGED stateStore
         ELSE IF state = 0
           THEN /\ oauth' = [oauth EXCEPT ![b] =
                       [got EXCEPT !.pc = "done", !.redirect = "missing_state"]]
                /\ UNCHANGED stateStore
         ELSE IF entry = {}
           THEN /\ oauth' = [oauth EXCEPT ![b] =
                       [got EXCEPT !.pc = "done", !.redirect = "invalid_state"]]
                /\ UNCHANGED stateStore
         ELSE /\ oauth' = [oauth EXCEPT ![b] =
                     [got EXCEPT !.pc = "exchange",
                                 !.userId = (CHOOSE e \in entry : TRUE).userId]]
              /\ stateStore' = [stateStore EXCEPT !.map = AfterUse(@, state)]
  /\ UNCHANGED connections /\ OAuthFrame

\* The answer of the code host to the exchange of the code: a status other
\* than 2xx, an answer without access_token, or a token.
OAuthExchange(b, answer) ==
  /\ oauth[b].pc = "exchange"
  /\ oauth' = [oauth EXCEPT ![b] =
       IF oauth[b].code = "refused" \/ answer = "failed"
         THEN [@ EXCEPT !.pc = "done", !.redirect = "token_exchange_failed"]
       ELSE IF answer = "empty"
         THEN [@ EXCEPT !.pc = "done", !.redirect = "no_access_token"]
       ELSE [@ EXCEPT !.pc = "user",
                      !.accessToken = <<"token of", AccountOf(oauth[b].code), b>>]]
  /\ UNCHANGED <<connections, stateStore>> /\ OAuthFrame

\* githubFetch of /user with the new token: a failure is thrown into the
\* catch block, which redirects with the message.
OAuthFetchUser(b, ok) ==
  /\ oauth[b].pc = "user"
  /\ oauth' = [oauth EXCEPT ![b] =
       IF ok THEN [@ EXCEPT !.pc = "upsert", !.githubId = AccountOf(oauth[b].code)]
       ELSE [@ EXCEPT !.pc = "done", !.redirect = "GitHub API error"]]
  /\ UNCHANGED <<connections, stateStore>> /\ OAuthFrame

\* An upsert that creates the row for whoever holds the first connection.
UpsertConnection_FirstUser(rows, userId, githubId, accessToken) ==
  IF \E r \in rows : r.githubId = githubId
    THEN { IF r.githubId = githubId THEN [r EXCEPT !.accessToken = accessToken] ELSE r :
             r \in rows }
    ELSE rows \cup { [userId |-> "u1", githubId |-> githubId,
                      accessToken |-> accessToken] }

\* prisma.gitHubConnection.upsert keyed by githubId: a row of that account
\* gets the new token and keeps its userId; without one a row is created
\* for the user of the state.
UpsertConnection(rows, userId, githubId, accessToken) ==
  IF \E r \in rows : r.githubId = githubId
    THEN { IF r.githubId = githubId THEN [r EXCEPT !.accessToken = accessToken] ELSE r :
             r \in rows }
    ELSE rows \cup { [userId |-> userId, githubId |-> githubId,
                      accessToken |-> accessToken] }

\* The upsert and the redirect that ends the callback; a refused upsert is
\* thrown into the catch block.
OAuthUpsert(b, ok) ==
  /\ oauth[b].pc = "upsert"
  /\ IF ok
       THEN /\ connections' = UpsertConnection(connections, oauth[b].userId,
                                               oauth[b].githubId, oauth[b].accessToken)
            /\ oauth' = [oauth EXCEPT ![b].pc = "done", ![b].redirect = "success",
                           ![b].created = ~\E r \in connections :
                                             r.githubId = oauth[b].githubId]
       ELSE /\ UNCHANGED connections
            /\ oauth' = [oauth EXCEPT ![b].pc = "done", ![b].redirect = "database error"]
  /\ UNCHANGED stateStore /\ OAuthFrame

\* The state of the variables outside the webhook pipeline when none of
\* their routes has been called.
ApiIdle ==
  /\ users = [u \in UserIds |-> NoStoredKey]
  /\ encryptionKey = {"k1"}
  /\ keyUse = NoKeyUse
  /\ listing = NoListing
  /\ http = [c \in Clients |-> NoHttp]
  /\ stateStore = EmptyStateStore
  /\ oauth = [b \in Clients |-> NoCallback]

Init ==
  /\ repositories = InitialRepositories
  /\ connections = InitialConnections
  /\ pullRequests = {}
  /\ reviews = <<>>
  /\ reviewComments = {}
  /\ request = [d \in Deliveries |-> NoRequest]
  /\ handler = [d \in Deliveries |-> IdleHandler]
  /\ response = [d \in Deliveries |-> 0]
  /\ task = [d \in Deliveries |-> NoTask]
  /\ log = {}
  /\ calls = [d \in Deliveries |-> <<>>]
  /\ unit = IdleUnit
  /\ ApiIdle

TaskNext ==
  \/ \E d \in Deliveries : \E ok \in BOOLEAN : TaskCreateReview(d, ok)
  \/ \E d \in Deliveries : \E ok \in BOOLEAN : TaskMarkRunning(d, ok)
  \/ \E d \in Deliveries : \E resp \in DiffResponses : TaskFetchDiff(d, resp)
  \/ \E d \in Deliveries : \E ok \in BOOLEAN : TaskMarkDoneEmpty(d, ok)
  \/ \E d \in Deliveries : \E ai \in AiResponses : TaskAnalyze(d, ai)
  \/ \E d \in Deliveries : \E ok \in BOOLEAN : TaskStoreComments(d, ok)
  \/ \E d \in Deliveries : \E ok \in BOOLEAN : TaskPostReview(d, ok)
  \/ \E d \in Deliveries : \E ok \in BOOLEAN : TaskPostFallback(d, ok)
  \/ \E d \in Deliveries : \E ok \in BOOLEAN : TaskMarkDone(d, ok)
  \/ \E d \in Deliveries : \E ok \in BOOLEAN : TaskMarkError(d, ok)

Next == HandlerNext \/ TaskNext

Spec == Init /\ [][Next]_vars

\* The steps of the review task of delivery d.
TaskStep(d) ==
  \/ \E ok \in BOOLEAN : TaskCreateReview(d, ok)
  \/ \E ok \in BOOLEAN : TaskMarkRunning(d, ok)
  \/ \E resp \in DiffResponses : TaskFetchDiff(d, resp)
  \/ \E ok \in BOOLEAN : TaskMarkDoneEmpty(d, ok)
  \/ \E ai \in AiResponses : TaskAnalyze(d, ai)
  \/ \E ok \in BOOLEAN : TaskStoreComments(d, ok)
  \/ \E ok \in BOOLEAN : TaskPostReview(d, ok)
  \/ \E ok \in BOOLEAN : TaskPostFallback(d, ok)
  \/ \E ok \in BOOLEAN : TaskMarkDone(d, ok)
  \/ \E ok \in BOOLEAN : TaskMarkError(d, ok)

\* The process does not crash and every store, diff-host, AI and publication
\* call settles: the event loop then runs the continuation of each task.
FairSpec == Spec /\ \A d \in Deliveries : WF_vars(TaskStep(d))

\* The unit starts with a list of files; the pipeline is at rest.
UnitInit ==
  /\ repositories = InitialRepositories
  /\ connections = InitialConnections
  /\ pullRequests = {}
  /\ reviews = <<>>
  /\ reviewComments = {}
  /\ request = [d \in Deliveries |-> NoRequest]
  /\ handler = [d \in Deliveries |-> IdleHandler]
  /\ response = [d \in Deliveries |-> 0]
  /\ task = [d \in Deliveries |-> NoTask]
  /\ log = {}
  /\ calls = [d \in Deliveries |-> <<>>]
  /\ unit \in { [IdleUnit EXCEPT !.pc = "start", !.changed = fs] : fs \in UnitFileLists }
  /\ ApiIdle

UnitNext ==
  \/ UnitFetchDiff
  \/ \E ai \in UnitCompletions : UnitAnalyze(ai)
  \/ UnitPostReview

UnitSpec == UnitInit /\ [][UnitNext]_vars

(***************************************************************************)
(* Properties.                                                             *)
(***************************************************************************)
Terminal == {"done", "error"}

\* The handler of d has sent its response.
Answered(d) == handler[d].pc = "sent"

\* The registered repository a request names, as a set.
TargetOf(r) == {repo \in repositories : repo.fullName = r.body.full_name}

\* The request is a pull_request event with a triggering action.
IsTrigger(r) ==
  r.event = "pull_request" /\ r.body.action \in {"opened", "synchronize", "reopened"}

\* The request names a registered repository that has a webhook secret.
TargetsSecretRepository(r) ==
  \E repo \in TargetOf(r) : repo.webhookSecret # Null

\* The signature header is present and is the HMAC-SHA256 of the body under
\* the secret of the repository the request names.
SignatureMatches(r) ==
  \E repo \in TargetOf(r) :
    /\ r.signature.present
    /\ r.signature.length = SignatureLength
    /\ r.signature.text = Hmac(repo.webhookSecret, r.body)

\* The PullRequest rows with the key a request names.
RowsOf(r) ==
  {p \in pullRequests : \E repo \in TargetOf(r) :
     p.repoId = repo.id /\ p.number = r.body.number}

\* C1: a Review row starts pending, its status moves only pending -> running,
\* running -> done or running -> error, and no step changes a field of a row
\* whose status is done or error.
C1_ReviewStateMachine ==
  [][ /\ \A i \in (DOMAIN reviews) \cap (DOMAIN reviews') :
           /\ reviews'[i].status # reviews[i].status =>
                <<reviews[i].status, reviews'[i].status>> \in
                  { <<"pending", "running">>, <<"running", "done">>,
                    <<"running", "error">> }
           /\ reviews[i].status \in Terminal => reviews'[i] = reviews[i]
      /\ \A i \in (DOMAIN reviews') \ (DOMAIN reviews) :
           reviews'[i].status = "pending" ]_vars

\* One Review is done and another is error.
C1_Witness ==
  \E i, j \in DOMAIN reviews :
    /\ reviews[i].status = "done"
    /\ reviews[j].status = "error"

\* C2: a delivery to a repository with a secret whose signature header is not
\* the HMAC of the body is answered 401, no PullRequest row for its key and no
\* review task exist because of it.
C2_ForgedSignatureRejected ==
  \A d \in Deliveries :
    ( /\ Answered(d)
      /\ IsTrigger(request[d])
      /\ TargetsSecretRepository(request[d])
      /\ ~SignatureMatches(request[d]) )
    => /\ response[d] = 401
       /\ task[d].pc = "none"

\* C3: for a repository with a secret the handler is past the signature check
\* (connection lookup, upsert, review trigger) only for requests whose
\* signature matches.
C3_VerificationNotSkippable ==
  \A d \in Deliveries :
    ( /\ TargetsSecretRepository(request[d])
      /\ \/ handler[d].pc \in {"findConnection", "upsert"}
         \/ task[d].pc # "none" )
    => SignatureMatches(request[d])

\* (repoId, number) is a key of the PullRequest rows, and so is id.
UniquePullRequests(rows) ==
  \A p, q \in rows :
    (p.id = q.id \/ (p.repoId = q.repoId /\ p.number = q.number)) => p = q

\* C4: there is at most one PullRequest row per (repository, number), and a
\* step changes nothing but title and status of a row that exists.
C4_UpsertNeverDuplicates ==
  /\ UniquePullRequests(pullRequests)
  /\ [][ /\ UniquePullRequests(pullRequests')
         /\ \A p \in pullRequests : \E q \in pullRequests' :
              /\ q.id = p.id /\ q.repoId = p.repoId /\ q.number = p.number
              /\ q.author = p.author /\ q.url = p.url ]_vars

\* Two accepted deliveries with the same key and different title, author and
\* url have both been upserted and one row holds the key.
C4_Witness ==
  \E d, e \in Deliveries :
    /\ response[d] = 201 /\ response[e] = 201
    /\ request[d].body.full_name = request[e].body.full_name
    /\ request[d].body.number = request[e].body.number
    /\ request[d].body.pr.title # request[e].body.pr.title
    /\ request[d].body.pr.login # request[e].body.pr.login
    /\ Cardinality(RowsOf(request[d])) = 1

\* The request is not a pull_request event, or its action triggers nothing,
\* or it names no registered repository.
Ignorable(r) == ~IsTrigger(r) \/ TargetOf(r) = {}

\* C5: a delivery that is not a pull_request event, or whose action is not
\* opened, synchronize or reopened, or whose repository is not registered,
\* is answered 200; no step of its handler changes a row or starts a task.
C5_IgnoredDeliveriesHaveNoEffect ==
  [][ \A d \in Deliveries :
        (handler'[d] # handler[d] /\ Ignorable(request'[d])) =>
          /\ UNCHANGED dbVars
          /\ task' = task
          /\ handler'[d].pc \in {"findRepository", "sent"}
          /\ handler'[d].pc = "sent" => response'[d] = 200 ]_vars

\* A delivery for an unregistered repository is answered 200 while
\* PullRequest rows exist.
C5_Witness ==
  /\ pullRequests # {}
  /\ \E d \in Deliveries :
       Answered(d) /\ response[d] = 200 /\ TargetOf(request[d]) = {}

\* C6: once a delivery has launched its review task the 201 response is
\* sent, whatever the position of the task.
C6_ResponseNeverWaits ==
  \A d \in Deliveries :
    task[d].pc # "none" => (Answered(d) /\ response[d] = 201)

\* The response is out while the Review row is not even created.
C6_Witness ==
  \E d \in Deliveries : response[d] = 201 /\ task[d].pc = "createReview"

\* The task of d has failed: the review could not be created, processReview
\* rejected, or the catch block is writing or has written the error.
TaskFailed(d) ==
  \/ task[d].pc \in {"triggerFailed", "rejected", "markError"}
  \/ task[d].pc = "finished" /\ reviews[task[d].reviewId].status = "error"

\* C7: a failed review task leaves the response of its delivery at 201; the
\* failure is in the log or on the Review row.
C7_TaskFailureNeverSurfaces ==
  \A d \in Deliveries :
    TaskFailed(d) =>
      /\ response[d] = 201
      /\ task[d].pc = "triggerFailed" =>
           <<d, "Review trigger failed", DbError>> \in log
      /\ task[d].pc = "rejected" => \E e \in log : e[1] = d /\ e[2] = "Review failed"
      /\ task[d].pc = "finished" =>
           reviews[task[d].reviewId].summary = <<"Review failed: ">> \o task[d].error

\* The creation of the Review row failed after 201 was sent.
C7_Witness ==
  \E d \in Deliveries : task[d].pc = "triggerFailed" /\ response[d] = 201

\* The owner of the repository a request names has a GitHub connection.
OwnerConnected(r) ==
  \E repo \in TargetOf(r) : \E c \in connections : c.userId = repo.userId

\* The handler runs its signature check on the request.
CheckRuns(r) == TargetsSecretRepository(r) /\ r.signature.present

C9_ValidSignatureAccepted ==
  \A d \in Deliveries :
    ( /\ Answered(d)
      /\ request[d].event = "pull_request"
      /\ request[d].body.action = "opened"
      /\ TargetsSecretRepository(request[d])
      /\ OwnerConnected(request[d])
      /\ SignatureMatches(request[d]) )
    => /\ response[d] = 201
       /\ \E p \in RowsOf(request[d]) : p.status = "open"
       /\ task[d].pc # "none"

\* The task of d has created its Review row.
Created(d) == task[d].reviewId # 0

\* The Review row of d is done or error.
ReviewTerminal(d) == Created(d) /\ reviews[task[d].reviewId].status \in Terminal

\* A write to the Review row of d failed outside any handler: processReview
\* rejected with the store's error.
ReviewWriteFailed(d) == <<d, "Review failed", DbError>> \in log

\* The task of d has no step left.
TaskStopped(d) == task[d].pc \in {"finished", "rejected", "triggerFailed"}

CommentsOf(id) == {c \in reviewComments : c.reviewId = id}

\* The requests of task d to one target, in the order they were sent.
CallsTo(d, target) == SelectSeq(calls[d], LAMBDA c : c.target = target)

\* The analysis engine was called by task d and returned.
EngineReturned(d) == \E i \in DOMAIN calls[d] : calls[d][i].target = "ai" /\ calls[d][i].ok

\* The Review row of task d.
ReviewOf(d) == reviews[task[d].reviewId]

\* C11: when a Review is done after a run of the analysis engine, its
\* ReviewComment rows are the comments the engine returned, one row per
\* comment with the same file path, line, body, category and severity, none
\* missing and none extra, and its summary and tokensUsed are the engine's.
C11_DoneReviewHoldsEngineOutput ==
  \A d \in Deliveries :
    (Created(d) /\ ReviewOf(d).status = "done" /\ EngineReturned(d)) =>
      LET rows == CommentsOf(task[d].reviewId)
          out == task[d].comments
      IN  /\ Cardinality(rows) = Len(out)
          /\ \A i \in DOMAIN out : \E c \in rows :
               /\ c.index = i
               /\ c.comment.filePath = out[i].filePath
               /\ c.comment.line = out[i].line
               /\ c.comment.body = out[i].body
               /\ c.comment.category = out[i].category
               /\ c.comment.severity = out[i].severity
          /\ ReviewOf(d).summary = task[d].summary
          /\ ReviewOf(d).tokensUsed = {task[d].tokensUsed}

\* A Review is done with two comment rows, and another is done after an AI
\* answer that left no comment.
C11_Witness ==
  \E d, e \in Deliveries :
    /\ Created(d) /\ ReviewOf(d).status = "done" /\ EngineReturned(d)
    /\ Cardinality(CommentsOf(task[d].reviewId)) = 2
    /\ Created(e) /\ ReviewOf(e).status = "done" /\ EngineReturned(e)
    /\ CommentsOf(task[e].reviewId) = {}

\* The diff fetch of task d succeeded and the filter left no file.
EmptyDiff(d) ==
  /\ calls[d] # <<>>
  /\ calls[d][1].target = "diff" /\ calls[d][1].ok
  /\ task[d].files = <<>>

\* A write of task d to the store was refused: inside the try block (the
\* catch block holds the store's error) or outside it (processReview rejected).
StoreFailed(d) == task[d].error = DbError \/ ReviewWriteFailed(d)

\* C12: after a successful diff fetch whose filter leaves no file the run
\* sends no request to the AI provider or the publication endpoint and
\* stores no comment; the Review it writes is done with completedAt set,
\* tokensUsed 0 and the summary "No reviewable changes found."; the run ends
\* with the Review done, and the Review is error only when the store refused
\* that write.
C12_EmptyDiffIsDone ==
  \A d \in Deliveries :
    EmptyDiff(d) =>
      /\ Len(calls[d]) = 1
      /\ CommentsOf(task[d].reviewId) = {}
      /\ ReviewOf(d).status = "done" =>
           /\ ReviewOf(d).completedAt = "set"
           /\ ReviewOf(d).tokensUsed = {0}
           /\ ReviewOf(d).summary = <<"No reviewable changes found.">>
      /\ ReviewOf(d).status = "error" => StoreFailed(d)
      /\ (TaskStopped(d) /\ ~StoreFailed(d)) => ReviewOf(d).status = "done"

\* A run on an empty diff has finished and its Review is done.
C12_Witness ==
  \E d \in Deliveries :
    EmptyDiff(d) /\ task[d].pc = "finished" /\ ReviewOf(d).status = "done"

\* The diff host answered the file-list request of task d with a status
\* that is not 2xx.
DiffFailed(d) ==
  /\ calls[d] # <<>>
  /\ calls[d][1].target = "diff" /\ ~calls[d][1].ok

\* C13: after a non-2xx answer to the file-list request the run sends no
\* further request (no second fetch, no AI call, no publication call) and
\* stores no comment; its Review never becomes done; the Review it writes is
\* error with completedAt set and a summary that holds the HTTP status of
\* the answer; and the run ends with the Review in error unless the store
\* refused that write.
C13_DiffFailureIsTerminal ==
  \A d \in Deliveries :
    DiffFailed(d) =>
      /\ Len(calls[d]) = 1
      /\ CommentsOf(task[d].reviewId) = {}
      /\ ReviewOf(d).status \in {"running", "error"}
      /\ ReviewOf(d).status = "error" =>
           /\ ReviewOf(d).completedAt = "set"
           /\ \E i \in DOMAIN ReviewOf(d).summary :
                ReviewOf(d).summary[i] = ToString(calls[d][1].status)
      /\ (TaskStopped(d) /\ ~ReviewWriteFailed(d)) => ReviewOf(d).status = "error"

\* A run whose diff fetch was answered 404 has finished with its Review in
\* error.
C13_Witness ==
  \E d \in Deliveries :
    /\ DiffFailed(d) /\ calls[d][1].status = 404
    /\ task[d].pc = "finished" /\ ReviewOf(d).status = "error"

\* The review-creation call with inline comments of task d failed and the
\* body-only call that followed succeeded.
FallbackSucceeded(d) ==
  LET rc == CallsTo(d, "review")
  IN  Len(rc) = 2 /\ ~rc[1].ok /\ rc[2].ok

\* C14: after a failed primary review-creation call and a successful
\* fallback the comments of the engine stay persisted, the Review never
\* records the publication failure (it is error only when the store refused
\* the done write), the Review it writes is done with completedAt set and
\* exactly the summary and tokensUsed the engine returned, and the run ends
\* with the Review done.
C14_FallbackStillDone ==
  \A d \in Deliveries :
    FallbackSucceeded(d) =>
      /\ CommentsOf(task[d].reviewId) = CommentRows(task[d].reviewId, task[d].comments)
      /\ ReviewOf(d).status \in {"running", "done", "error"}
      /\ ReviewOf(d).status = "error" => StoreFailed(d)
      /\ ReviewOf(d).status = "done" =>
           /\ ReviewOf(d).completedAt = "set"
           /\ ReviewOf(d).summary = task[d].summary
           /\ ReviewOf(d).tokensUsed = {task[d].tokensUsed}
      /\ (TaskStopped(d) /\ ~StoreFailed(d)) => ReviewOf(d).status = "done"

\* A run with comments whose primary call failed and whose fallback
\* succeeded has finished with its Review done.
C14_Witness ==
  \E d \in Deliveries :
    /\ FallbackSucceeded(d) /\ Len(task[d].comments) > 0
    /\ task[d].pc = "finished" /\ ReviewOf(d).status = "done"

\* The positions in calls[d] of the review-creation calls.
ReviewCallIndexes(d) == {i \in DOMAIN calls[d] : calls[d][i].target = "review"}

\* C15: a run makes at most two review-creation calls, one after the other
\* and after every other request; a second call exists only after a failed
\* first one, and after a failed first call the next request of the run is
\* the second call; the second call carries no inline comment, the event
\* COMMENT and a body that lists every comment the engine returned, and
\* nothing follows it.
C15_FallbackExactlyOnce ==
  /\ [] \A d \in Deliveries :
       LET rc == CallsTo(d, "review")
           out == task[d].comments
       IN  /\ Len(rc) <= 2
           /\ \A i \in ReviewCallIndexes(d) : \A j \in DOMAIN calls[d] :
                j > i => calls[d][j].target = "review"
           /\ Len(rc) = 2 =>
                /\ ~rc[1].ok
                /\ rc[2].payload.comments = <<>>
                /\ rc[2].payload.event = "COMMENT"
                /\ Len(rc[2].payload.body.details) = Len(out)
                /\ \A i \in DOMAIN out :
                     LET entry == rc[2].payload.body.details[i]
                     IN  /\ entry.filePath = out[i].filePath
                         /\ entry.line = out[i].line
                         /\ entry.body = out[i].body
                         /\ entry.category = out[i].category
                         /\ entry.severity = out[i].severity
                /\ task[d].pc \in {"markDone", "markError", "finished", "rejected"}
           /\ (Len(rc) = 1 /\ rc[1].ok) =>
                task[d].pc \in {"markDone", "markError", "finished", "rejected"}
           /\ (Len(rc) = 1 /\ ~rc[1].ok) => task[d].pc = "postFallback"
  /\ [][ \A d \in Deliveries :
           (task[d].pc = "postFallback" /\ task'[d] # task[d]) =>
             /\ Len(calls'[d]) = Len(calls[d]) + 1
             /\ calls'[d][Len(calls'[d])].target = "review" ]_vars

\* A run with comments has made the primary call, which failed, and the
\* fallback, while another run made one call, which succeeded.
C15_Witness ==
  \E d, e \in Deliveries :
    /\ Len(CallsTo(d, "review")) = 2 /\ Len(task[d].comments) > 0
    /\ Len(CallsTo(e, "review")) = 1 /\ CallsTo(e, "review")[1].ok
    /\ task[e].pc = "finished"

\* C16: the request with inline comments built from the output of the engine
\* has the event REQUEST_CHANGES when some comment has severity error and
\* COMMENT when none has, also when there is no comment, and carries one
\* inline comment per comment of the engine, in order, with its file path
\* and line.
C16_PrimaryRequestShape ==
  unit.pc = "posted" =>
    LET out == unit.result.comments
        sent == unit.primary
    IN  /\ sent.event \in {"REQUEST_CHANGES", "COMMENT"}
        /\ sent.event = "REQUEST_CHANGES" <=>
             \E i \in DOMAIN out : out[i].severity = "error"
        /\ Len(sent.comments) = Len(out)
        /\ \A i \in DOMAIN out :
             /\ sent.comments[i].path = out[i].filePath
             /\ sent.comments[i].line = out[i].line

\* A request was built for two comments none of which is an error and one of
\* which is a warning: it is sent as COMMENT with two inline comments.
C16_Witness ==
  /\ unit.pc = "posted"
  /\ Len(unit.result.comments) = 2
  /\ \E i \in DOMAIN unit.result.comments : unit.result.comments[i].severity = "warning"
  /\ \A i \in DOMAIN unit.result.comments : unit.result.comments[i].severity # "error"
  /\ unit.primary.event = "COMMENT"
  /\ Len(unit.primary.comments) = 2

\* The paths of the files at hand that the denylist names: a lockfile, a
\* file under dist/ and a minified script.
DenylistedPaths == {LockFile.filename, DistFile.filename, MinFile.filename}

\* A file the filter has to keep: it has a patch, the patch is at most
\* 10,000 characters long, and its path is not denylisted.
MustKeep(f) ==
  /\ f.patch.present /\ f.patch.length >= 1
  /\ f.patch.length <= 10000
  /\ f.filename \notin DenylistedPaths

\* The number of elements of K that are at most i.
Rank(K, i) == Cardinality({k \in K : k <= i})

\* C17: the output of the diff filter holds exactly the files of its input
\* that have a patch of at most 10,000 characters and a path outside the
\* denylist, each as often as the input holds it and in the input's order;
\* the filter reads nothing but its input, so the output is the same for the
\* same input.
C17_FilterIsOrderedSelection ==
  unit.pc = "filtered" =>
    LET input == unit.files
        out == unit.reviewable
        kept == {i \in DOMAIN input : MustKeep(input[i])}
    IN  /\ Len(out) = Cardinality(kept)
        /\ \A i \in kept : out[Rank(kept, i)] = input[i]
        /\ out = FilterFiles(input)

\* The filter dropped the middle one of three files and kept the other two,
\* different files, in their order.
C17_Witness ==
  /\ unit.pc = "filtered"
  /\ Len(unit.files) = 3 /\ Len(unit.reviewable) = 2
  /\ ~MustKeep(unit.files[2])
  /\ unit.reviewable[1] = unit.files[1] /\ unit.reviewable[2] = unit.files[3]
  /\ unit.files[1] # unit.files[3]

\* The AI provider answered task d with a completion whose content is empty
\* or is not parseable JSON.
BadCompletion(d) ==
  \E i \in DOMAIN calls[d] :
    /\ calls[d][i].target = "ai" /\ calls[d][i].ok
    /\ calls[d][i].content \in {"empty", "unparseable"}

\* C18: on a completion whose content is empty or not parseable JSON the
\* engine returns no comment and a summary that is not empty, and does not
\* throw: the run stores no comment and goes on to the publication call,
\* and its Review is in error only for a failure of the publication calls
\* or of the store, never for the completion.
C18_BadCompletionDegrades ==
  \A d \in Deliveries :
    BadCompletion(d) =>
      /\ task[d].comments = <<>>
      /\ task[d].summary # <<>>
      /\ task[d].error # AiError
      /\ CommentsOf(task[d].reviewId) = {}
      /\ task[d].pc = "postReview" \/ Len(CallsTo(d, "review")) >= 1
      /\ (task[d].pc = "markError" \/ ReviewOf(d).status = "error") =>
           task[d].error \in {DbError, <<"GitHub API ", "422">>}
      /\ ReviewOf(d).status = "done" => ReviewOf(d).summary = task[d].summary

\* After a completion that could not be parsed the publication call was made
\* and the Review is done.
C18_Witness ==
  \E d \in Deliveries :
    /\ \E i \in DOMAIN calls[d] :
         calls[d][i].target = "ai" /\ calls[d][i].content = "unparseable"
    /\ Len(CallsTo(d, "review")) = 1
    /\ ReviewOf(d).status = "done"

\* The engine has returned for the completion unit.ai.
Analyzed == unit.pc \in {"analyzed", "posted"}

\* The location of a comment of the AI is acceptable: it names a file that
\* was included in the prompt and its line is a number.
LocationOk(c) ==
  /\ c.line.isNumber
  /\ \E i \in DOMAIN unit.included : unit.included[i] = c.filePath

\* The positions of the comments of the AI whose location is acceptable and
\* that have a body.
Accepted == {j \in DOMAIN unit.ai.comments :
               LocationOk(unit.ai.comments[j]) /\ unit.ai.comments[j].body # <<>>}

\* C19: every comment the engine returns names a file that was included in
\* the prompt and has the numeric line of a comment of the AI at that path,
\* and every comment of the AI whose path is not among the included files or
\* whose line is not a number is dropped: the output has one comment for
\* each accepted comment of the AI and none besides.
C19_CommentsStayInsidePrompt ==
  Analyzed =>
    LET raw == unit.ai.comments
        out == unit.result.comments
    IN  /\ \A i \in DOMAIN out :
             /\ \E k \in DOMAIN unit.included : unit.included[k] = out[i].filePath
             /\ \E j \in DOMAIN raw :
                  /\ raw[j].filePath = out[i].filePath
                  /\ raw[j].line.isNumber /\ raw[j].line.value = out[i].line
        /\ Len(out) <= Cardinality({j \in DOMAIN raw : LocationOk(raw[j])})
        /\ (\A j \in DOMAIN raw : ~LocationOk(raw[j])) => out = <<>>
        /\ \A k \in DOMAIN unit.included :
             \E i \in DOMAIN unit.reviewable : unit.reviewable[i].filename = unit.included[k]

\* The prompt left out a file the filter had kept, the AI commented on that
\* file and on an included one, and only the second comment was returned.
C19_Witness ==
  /\ Analyzed
  /\ \E i \in DOMAIN unit.reviewable :
       /\ unit.reviewable[i].filename = SourceFile.filename
       /\ \A k \in DOMAIN unit.included : unit.included[k] # SourceFile.filename
  /\ Len(unit.ai.comments) = 2
  /\ unit.ai.comments[1].filePath = SourceFile.filename
  /\ unit.ai.comments[1].line.isNumber /\ unit.ai.comments[1].body # <<>>
  /\ Len(unit.result.comments) = 1
  /\ unit.result.comments[1].filePath = LimitFile.filename

\* C20: the engine returns one comment for every comment of the AI that
\* passes the location check and has a body, whatever its category and
\* severity, in the AI's order and with path, line and body unchanged; a
\* category among security, performance, style, bug and best-practice is
\* kept and any other becomes best-practice, a severity among info, warning
\* and error is kept and any other becomes info.
C20_EnumsNormalizedNotDropped ==
  Analyzed =>
    LET raw == unit.ai.comments
        out == unit.result.comments
    IN  /\ Len(out) = Cardinality(Accepted)
        /\ \A j \in Accepted :
             LET c == out[Rank(Accepted, j)]
             IN  /\ c.filePath = raw[j].filePath
                 /\ c.line = raw[j].line.value
                 /\ c.body = raw[j].body
                 /\ c.category =
                      (IF raw[j].category \in
                            {"security", "performance", "style", "bug", "best-practice"}
                         THEN raw[j].category ELSE "best-practice")
                 /\ c.severity =
                      (IF raw[j].severity \in {"info", "warning", "error"}
                         THEN raw[j].severity ELSE "info")
        /\ \A i \in DOMAIN out :
             /\ out[i].category \in {"security", "performance", "style", "bug", "best-practice"}
             /\ out[i].severity \in {"info", "warning", "error"}

\* A comment of the AI with an unknown category and an unknown severity was
\* returned as best-practice and info, next to one that came through as it
\* was.
C20_Witness ==
  /\ Analyzed
  /\ Len(unit.ai.comments) = 2 /\ Len(unit.result.comments) = 2
  /\ unit.ai.comments[1].category = "nitpick" /\ unit.ai.comments[1].severity = "fatal"
  /\ unit.result.comments[1].category = "best-practice"
  /\ unit.result.comments[1].severity = "info"
  /\ unit.result.comments[2].category = "bug" /\ unit.result.comments[2].severity = "error"


\* Task d took a step.
Stepped(d) == task'[d] # task[d]

\* C21: under every interleaving of the deliveries (also two for the same
\* pull request) each delivery whose review.create succeeded has a Review row
\* of its own (the rows are as many as those deliveries and their ids
\* differ); a Review row is created or changed only in a step of the task
\* that owns it, and no other task moves in that step; and a run that has no
\* step left has its own Review done or error whatever the other run did,
\* unless the store refused one of its writes.
C21_RunsOwnTheirReviews ==
  /\ [] /\ \A d, e \in Deliveries :
             (Created(d) /\ Created(e) /\ d # e) => task[d].reviewId # task[e].reviewId
        /\ \A i \in DOMAIN reviews : reviews[i].id = i
        /\ Len(reviews) = Cardinality({d \in Deliveries : Created(d)})
        /\ \A d \in Deliveries :
             (response[d] = 201 /\ task[d].pc \notin {"createReview", "triggerFailed"})
               => Created(d)
        /\ \A d \in Deliveries :
             (Created(d) /\ TaskStopped(d) /\ ~StoreFailed(d)) => ReviewTerminal(d)
  /\ [][ /\ \A i \in DOMAIN reviews :
              reviews'[i] # reviews[i] =>
                \E d \in Deliveries :
                  /\ task[d].reviewId = i
                  /\ Stepped(d)
                  /\ \A e \in Deliveries \ {d} : ~Stepped(e)
         /\ Len(reviews') >= Len(reviews)
         /\ \A i \in DOMAIN reviews' \ DOMAIN reviews :
              \E d \in Deliveries :
                /\ task[d].pc = "createReview"
                /\ task'[d].reviewId = i
                /\ \A e \in Deliveries \ {d} : ~Stepped(e) ]_vars

\* Two deliveries for the same pull request have a Review each, and the run
\* that was created second has finished while the first is still running.
C21_Witness ==
  /\ Len(reviews) = 2
  /\ reviews[1].prId = reviews[2].prId
  /\ reviews[1].status = "running"
  /\ reviews[2].status \in Terminal
  /\ \E d \in Deliveries : task[d].reviewId = 2 /\ TaskStopped(d)


\* C22: a run is never retried.  A task sends at most one request for the
\* file list and at most one to the AI provider; it creates at most one
\* Review (a task past review.create never comes back to it, and the rows are
\* never more than the deliveries answered 201); a row is added only by the
\* task of a triggering delivery answered 201 that has no Review yet; and once
\* a Review is done or error neither the row, nor its comments, nor the
\* requests of its task change again.  The exception is the delivery whose
\* review.create the store refused: it has no Review at all.
C22_NoRetry ==
  /\ [] /\ \A d \in Deliveries :
             /\ Len(CallsTo(d, "diff")) <= 1
             /\ Len(CallsTo(d, "ai")) <= 1
             /\ Created(d) => (response[d] = 201 /\ IsTrigger(request[d]))
        /\ Len(reviews) <= Cardinality({d \in Deliveries : response[d] = 201})
        /\ \A d \in Deliveries :
             (response[d] = 201 /\ task[d].pc \notin {"createReview", "triggerFailed"})
               => Cardinality({i \in DOMAIN reviews : i = task[d].reviewId}) = 1
  /\ [][ /\ \A d \in Deliveries :
              task[d].pc \notin {"none", "createReview"} => task'[d].pc # "createReview"
         /\ \A i \in DOMAIN reviews' \ DOMAIN reviews :
              \E d \in Deliveries :
                /\ task[d].pc = "createReview" /\ ~Created(d)
                /\ response[d] = 201 /\ IsTrigger(request[d])
                /\ task'[d].reviewId = i
         /\ \A d \in Deliveries :
              ReviewTerminal(d) =>
                /\ reviews'[task[d].reviewId] = reviews[task[d].reviewId]
                /\ CommentsOf(task[d].reviewId)' = CommentsOf(task[d].reviewId)
                /\ calls'[d] = calls[d]
                /\ task'[d].pc \in {task[d].pc, "finished"} ]_vars

\* The first Review of a pull request ended in error after its one request
\* for the file list failed, its task has stopped, and a second delivery for
\* the same pull request has a Review of its own.
C22_Witness ==
  /\ Len(reviews) = 2
  /\ reviews[1].prId = reviews[2].prId
  /\ reviews[1].status = "error"
  /\ \E d, e \in Deliveries :
       /\ d # e
       /\ task[d].reviewId = 1 /\ task[d].pc = "finished"
       /\ Len(calls[d]) = 1 /\ DiffFailed(d)
       /\ task[e].reviewId = 2
       /\ request[e].body.action = "synchronize"


\* C23: the diff source adapter considers every changed file of the pull
\* request: what the filter is applied to is the whole list of changed files
\* at the host, also when the list is longer than one page.
C23_AllChangedFilesFetched ==
  unit.pc = "filtered" =>
    /\ unit.files = unit.changed
    /\ unit.reviewable = FilterFiles(unit.changed)


\* C24: the ReviewComment rows of a Review come with its transition to done:
\* a Review that ended in error has no ReviewComment row.
C24_ErrorReviewHasNoComments ==
  \A i \in DOMAIN reviews :
    reviews[i].status = "error" => CommentsOf(i) = {}


\* C25: in every reachable state a Review has completedAt set exactly when
\* its status is done or error; a done Review has a summary that is not empty
\* and a tokensUsed value, which is 0 when the diff was empty; a Review in
\* error has the summary "Review failed: " followed by the message of the
\* error its run caught, and that message is not empty.
C25_TerminalFields ==
  \A d \in Deliveries :
    Created(d) =>
      LET r == ReviewOf(d)
      IN  /\ (r.completedAt # Null) <=> (r.status \in Terminal)
          /\ r.status = "done" =>
               /\ r.summary # <<>>
               /\ r.tokensUsed # {}
               /\ EmptyDiff(d) => r.tokensUsed = {0}
          /\ r.status = "error" =>
               /\ task[d].error # <<>>
               /\ r.summary = <<"Review failed: ">> \o task[d].error

\* One Review is done after an empty diff with tokensUsed 0, another is in
\* error with the message of a failed AI request, both with completedAt set.
C25_Witness ==
  \E d, e \in Deliveries :
    /\ Created(d) /\ Created(e)
    /\ ReviewOf(d).status = "done" /\ EmptyDiff(d)
    /\ ReviewOf(d).tokensUsed = {0} /\ ReviewOf(d).completedAt # Null
    /\ ReviewOf(e).status = "error" /\ ReviewOf(e).completedAt # Null
    /\ ReviewOf(e).summary = <<"Review failed: ">> \o AiError


\* The place of a request's target in the order of a run.
StepRank(target) == CASE target = "diff" -> 1 [] target = "ai" -> 2 [] OTHER -> 3

\* C26: within one run the requests go out in the order file list, AI,
\* publication; the AI is called only after the file-list request was
\* answered with success; comments are stored only after the engine
\* returned; a publication request is sent only when every comment the
\* engine returned is in the store; and a Review is done only after a
\* publication request that succeeded, which is the last request of the run,
\* or after an empty diff.
C26_StepsInOrder ==
  \A d \in Deliveries :
    /\ \A i, j \in DOMAIN calls[d] :
         i < j => StepRank(calls[d][i].target) <= StepRank(calls[d][j].target)
    /\ CallsTo(d, "ai") # <<>> =>
         /\ calls[d][1].target = "diff" /\ calls[d][1].ok
         /\ calls[d][2].target = "ai"
    /\ (Created(d) /\ CommentsOf(task[d].reviewId) # {}) => EngineReturned(d)
    /\ CallsTo(d, "review") # <<>> =>
         /\ EngineReturned(d)
         /\ CommentsOf(task[d].reviewId) = CommentRows(task[d].reviewId, task[d].comments)
    /\ (Created(d) /\ ReviewOf(d).status = "done") =>
         \/ EmptyDiff(d) /\ Len(calls[d]) = 1
         \/ /\ calls[d][Len(calls[d])].target = "review"
            /\ calls[d][Len(calls[d])].ok

\* A run has its comments in the store and a publication request answered
\* with success, and its Review is still running: the done update is the
\* step that is left.
C26_Witness ==
  \E d \in Deliveries :
    /\ task[d].pc = "markDone"
    /\ ReviewOf(d).status = "running"
    /\ Len(calls[d]) = 3
    /\ calls[d][3].target = "review" /\ calls[d][3].ok
    /\ CommentsOf(task[d].reviewId) # {}
    /\ CommentsOf(task[d].reviewId) = CommentRows(task[d].reviewId, task[d].comments)


\* The review-creation call with inline comments of task d and the body-only
\* call that followed both failed.
BothPublicationCallsFailed(d) ==
  LET rc == CallsTo(d, "review")
  IN  Len(rc) = 2 /\ ~rc[1].ok /\ ~rc[2].ok

\* C27: after the review-creation call and the fallback call have both failed
\* the run sends no further request and its Review never becomes done; the
\* error the run caught is the one of the publication host; the Review it
\* writes is error with completedAt set and the summary "Review failed: "
\* followed by that message, which holds the HTTP status of the answer; and
\* the run ends with the Review in error unless the store refused that
\* write.
C27_PublicationFailureIsTerminal ==
  \A d \in Deliveries :
    BothPublicationCallsFailed(d) =>
      /\ calls[d][Len(calls[d])].target = "review" /\ ~calls[d][Len(calls[d])].ok
      /\ task[d].pc \in {"markError", "finished", "rejected"}
      /\ task[d].error = GithubError(calls[d][Len(calls[d])].status)
      /\ ReviewOf(d).status \in {"running", "error"}
      /\ ReviewOf(d).status = "error" =>
           /\ ReviewOf(d).completedAt = "set"
           /\ ReviewOf(d).summary = <<"Review failed: ">> \o task[d].error
           /\ \E i \in DOMAIN ReviewOf(d).summary :
                ReviewOf(d).summary[i] = ToString(PublicationFailureStatus)
      /\ (TaskStopped(d) /\ ~ReviewWriteFailed(d)) => ReviewOf(d).status = "error"

\* A run whose two publication calls failed has finished with its Review in
\* error.
C27_Witness ==
  \E d \in Deliveries :
    /\ BothPublicationCallsFailed(d)
    /\ task[d].pc = "finished" /\ ReviewOf(d).status = "error"
    /\ ReviewOf(d).completedAt = "set"


\* The length of the blocks of the first n files.
RECURSIVE BlocksLength(_, _)
BlocksLength(files, n) ==
  IF n = 0 THEN 0 ELSE BlocksLength(files, n - 1) + FileBlockLength(files[n])

\* C28: the files named in the prompt are the first n files of the filtered
\* list, in its order, for some n; their blocks together are at most 60,000
\* characters; and when n is less than the length of the list the block of
\* file n + 1 would have taken the text over 60,000: inclusion stops at the
\* first file that does not fit and no file after it is included.
C28_PromptIsBoundedPrefix ==
  unit.pc \in {"analyzed", "threw"} =>
    LET files == unit.reviewable
        n == Len(unit.included)
    IN  /\ n <= Len(files)
        /\ \A i \in 1..n : unit.included[i] = files[i].filename
        /\ BlocksLength(files, n) <= MaxDiffLength
        /\ n < Len(files) =>
             BlocksLength(files, n) + FileBlockLength(files[n + 1]) > MaxDiffLength

\* Seven files were handed to the engine; the first five are in the prompt,
\* the sixth does not fit, and the seventh is left out although its block
\* would have fitted after the fifth.
C28_Witness ==
  /\ unit.pc = "analyzed"
  /\ Len(unit.reviewable) = 7 /\ Len(unit.included) = 5
  /\ BlocksLength(unit.reviewable, 5) + FileBlockLength(unit.reviewable[6]) > MaxDiffLength
  /\ BlocksLength(unit.reviewable, 5) + FileBlockLength(unit.reviewable[7]) <= MaxDiffLength


\* A count of the provider, with 0 for a count that is missing.
Counted(x) == IF x = {} THEN {0} ELSE x

\* C29: whenever the engine returns, the tokensUsed of its result is the
\* provider's prompt token count plus its completion token count, a missing
\* count taken as 0, whether the content was empty, not parseable, or a JSON
\* object.
C29_TokensAreSummed ==
  unit.pc \in {"analyzed", "posted"} =>
    \A p \in Counted(unit.ai.prompt_tokens), c \in Counted(unit.ai.completion_tokens) :
      unit.result.tokensUsed = p + c

\* The engine returned on the unparseable path for a completion with no
\* prompt count and a completion count of 50, and reported 50.
C29_Witness ==
  /\ unit.pc = "analyzed"
  /\ unit.ai.content = "unparseable"
  /\ unit.ai.prompt_tokens = {} /\ unit.ai.completion_tokens = {50}
  /\ unit.result.tokensUsed = 50
  /\ unit.result.comments = <<>>


\* C30: the token and the rules of a run are those of the rows its webhook
\* handler read, the registered repository named by the delivery and the
\* connection of that repository's owner, and they stay the same for the
\* whole run; every request of the run to the code host carries that token
\* and its request to the AI provider carries those rules; and no step
\* writes to a Repository or a Connection, while a step of one run leaves
\* the context, the requests and the Review of every other run as they were.
C30_CredentialsAreReadOnly ==
  /\ [] \A d \in Deliveries :
          task[d].pc # "none" =>
            /\ \E repo \in handler[d].registeredRepo, conn \in handler[d].ghConnection :
                 /\ repo \in repositories /\ conn \in connections
                 /\ repo.fullName = request[d].body.full_name
                 /\ conn.userId = repo.userId
                 /\ task[d].ctx.accessToken = conn.accessToken
                 /\ task[d].ctx.rules = repo.rules
            /\ \A i \in DOMAIN calls[d] :
                 IF calls[d][i].target = "ai"
                   THEN calls[d][i].rules = task[d].ctx.rules
                   ELSE calls[d][i].token = task[d].ctx.accessToken
  /\ [][ /\ repositories' = repositories
         /\ connections' = connections
         /\ \A d \in Deliveries :
              /\ task[d].pc # "none" => task'[d].ctx = task[d].ctx
              /\ Stepped(d) =>
                   \A e \in Deliveries \ {d} :
                     /\ task'[e] = task[e]
                     /\ calls'[e] = calls[e]
                     /\ Created(e) => reviews'[task[e].reviewId] = reviews[task[e].reviewId]
       ]_vars

\* Two runs for repositories of different owners are under way at once,
\* each has asked the code host for its files with its own owner's token,
\* and the one whose repository has custom rules has sent them to the AI.
C30_Witness ==
  \E d, e \in Deliveries :
    /\ task[d].ctx.accessToken = "tok-u1" /\ task[d].ctx.rules = Null
    /\ task[e].ctx.accessToken = "tok-u3" /\ task[e].ctx.rules = "no-any"
    /\ Len(calls[d]) >= 1 /\ calls[d][1].token = "tok-u1"
    /\ Len(calls[e]) >= 2 /\ calls[e][1].token = "tok-u3"
    /\ calls[e][2].target = "ai" /\ calls[e][2].rules = "no-any"
    /\ task[d].pc # "finished"


(***************************************************************************)
(* The credential of the AI call.                                          *)
(***************************************************************************)
\* The pipeline at rest: no delivery has arrived.
PipelineIdle ==
  /\ repositories = InitialRepositories
  /\ connections = InitialConnections
  /\ reviews = <<>>
  /\ reviewComments = {}
  /\ request = [d \in Deliveries |-> NoRequest]
  /\ handler = [d \in Deliveries |-> IdleHandler]
  /\ response = [d \in Deliveries |-> 0]
  /\ task = [d \in Deliveries |-> NoTask]
  /\ log = {}
  /\ calls = [d \in Deliveries |-> <<>>]
  /\ unit = IdleUnit

\* Pull request 1 of acme/open (owner u1) and of acme/sec (owner u3), as the
\* webhook stores them.
KeyPullRequests ==
  LET open == CHOOSE r \in InitialRepositories : r.fullName = "acme/open"
      sec == CHOOSE r \in InitialRepositories : r.fullName = "acme/sec"
  IN  UpsertPullRequest(
        UpsertPullRequest({}, open, Body("opened", "acme/open", 1, OpenPr)),
        sec, Body("opened", "acme/sec", 1, OpenPr))

\* The ids analyzeWithAI is called with: the stored pull requests, and one
\* whose row is gone.
KeyPullRequestIds == {1, 2, 99}

KeyInit ==
  /\ PipelineIdle
  /\ pullRequests = KeyPullRequests
  /\ ApiIdle

KeyNext ==
  \/ \E u \in UserIds : \E k \in ApiKeyInputs : SettingsPostOpenAI(u, k)
  \/ \E u \in UserIds : SettingsDeleteOpenAI(u)
  \/ \E keys \in {{}} \cup {{k} : k \in EncryptionKeys} : Redeploy(keys)
  \/ \E prId \in KeyPullRequestIds : AnalyzeResolveKey(prId)

KeySpec == KeyInit /\ [][KeyNext]_vars

\* The three columns of a User row are all set.
HasStoredKey(u) ==
  u.openaiApiKeyEnc # {} /\ u.openaiApiKeyIv # {} /\ u.openaiApiKeyTag # {}

\* The key a row was written with by POST /api/settings/openai.
StoredKey(u) == (CHOOSE e \in u.openaiApiKeyEnc : TRUE)[3]

\* The User row of the owner of the repository of a pull request, as a set.
OwnerRow(prId) ==
  { users[r.userId] : r \in { r \in repositories :
      \E pr \in pullRequests : pr.id = prId /\ pr.repoId = r.id } }

\* C31: the AI call of a review is made with the stored key of the
\* repository owner whenever the three encrypted parts of that key are all
\* present, and with the shared server key only otherwise.  When the stored
\* parts cannot be decrypted the analysis throws and no call is made; the
\* shared key is not used in its place.
C31_CredentialIsOwnersKey ==
  [][keyUse' # keyUse =>
       LET owner == OwnerRow(keyUse'.prId)
       IN  IF \E u \in owner : HasStoredKey(u)
             THEN /\ keyUse'.credential # ServerOpenAIKey
                  /\ keyUse'.pc = "called" =>
                       \A u \in owner : keyUse'.credential = StoredKey(u)
             ELSE /\ keyUse'.pc = "called"
                  /\ keyUse'.credential = ServerOpenAIKey]_vars

\* C31 witness: the review of a pull request of u1 has been analysed with
\* the key u1 stored, while u3 has stored another key.
C31_Witness ==
  /\ keyUse.pc = "called"
  /\ keyUse.prId = 1
  /\ keyUse.credential = "sk-alice-0001"
  /\ HasStoredKey(users["u1"])
  /\ HasStoredKey(users["u3"])
  /\ StoredKey(users["u3"]) = "sk-bob-00002"


(***************************************************************************)
(* The repository listing.                                                 *)
(***************************************************************************)
\* One call of the route, against each list the code host may hold.
ListInit ==
  /\ PipelineIdle
  /\ pullRequests = {}
  /\ users = [u \in UserIds |-> NoStoredKey]
  /\ encryptionKey = {"k1"}
  /\ keyUse = NoKeyUse
  /\ listing \in { [NoListing EXCEPT !.host = h] : h \in HostScripts }
  /\ http = [c \in Clients |-> NoHttp]
  /\ stateStore = EmptyStateStore
  /\ oauth = [b \in Clients |-> NoCallback]

ListNext ==
  \/ \E u \in UserIds : ListStart(u)
  \/ ListFetchPage

ListSpec == ListInit /\ [][ListNext]_vars

\* The request of a page settles, and the event loop then runs the rest of
\* the loop body.
FairListSpec == ListSpec /\ WF_vars(ListFetchPage)

\* A page after which the loop must not go on: the request failed, or the
\* page is empty, or shorter than the page size, or has no next link.
LastPage(a) ==
  ~a.ok \/ a.length = 0 \/ a.length < ListPerPage \/ ~a.hasNext

\* The pages requested so far are 1, 2, ... in this order, none of them
\* follows a last page, and a finished listing ended on a last page and
\* returns the non-empty pages in the order of their numbers.
ListedInOrder ==
  LET n == Len(listing.requested)
  IN  /\ \A i \in 1..n : listing.requested[i] = i
      /\ \A i \in 1..(n - 1) : ~LastPage(PageAnswer(listing.host, i))
      /\ listing.pc = "fetching" => listing.page = n + 1
      /\ listing.pc \in {"done", "failed"} =>
           /\ n >= 1
           /\ LastPage(PageAnswer(listing.host, n))
      /\ listing.pc = "done" =>
           LET full == {i \in 1..n : PageAnswer(listing.host, i).length > 0}
           IN  /\ Len(listing.repos) = Cardinality(full)
               /\ \A i \in full :
                    listing.repos[i] =
                      [page |-> i, length |-> PageAnswer(listing.host, i).length]

\* C32: the listing of a list of finitely many pages terminates; it
\* requests the pages in order, stops at the first page that is empty, or
\* shorter than the page size, or without a next link (either of the last
\* two suffices), or whose request failed, and never requests a page after
\* such a page.
C32_ListingStopsAtLastPage ==
  /\ []ListedInOrder
  /\ (listing.pc = "fetching") ~> (listing.pc \in {"done", "failed"})

\* C32 witness: the listing has finished after two pages, the second one
\* full but without a next link.
C32_Witness ==
  /\ listing.pc = "done"
  /\ Len(listing.requested) = 2
  /\ PageAnswer(listing.host, 2).length = ListPerPage
  /\ ~PageAnswer(listing.host, 2).hasNext
  /\ Len(listing.repos) = 2


(***************************************************************************)
(* Registration of repositories.                                           *)
(***************************************************************************)
\* The full names the registration requests carry: one that is registered
\* from the start and one that is not.
RegistrationNames == {"acme/open", "new/repo"}

\* Registration requests of the signed-in users, through both routes.
RegistrationRequests ==
  { ApiRequest("POST", p, BearerOf(u), n) :
      p \in { <<"api", "repositories">>, <<"api", "github", "repos", "enable">> },
      u \in {"u1", "u2", "u3"},
      n \in RegistrationNames \cup {""} }

RegInit ==
  /\ PipelineIdle
  /\ pullRequests = {}
  /\ users = [u \in UserIds |-> NoStoredKey]
  /\ encryptionKey = {"k1"}
  /\ keyUse = NoKeyUse
  /\ listing = NoListing
  /\ http = [c \in Clients |-> NoHttp]
  /\ stateStore = EmptyStateStore
  /\ oauth = [b \in Clients |-> NoCallback]

RegNext ==
  \/ \E c \in Clients : \E req \in RegistrationRequests : ApiReceive(c, req)
  \/ \E c \in Clients : RepositoriesCreateFind(c)
  \/ \E c \in Clients : RepositoriesCreateInsert(c)
  \/ \E c \in Clients : EnableFindConnection(c)
  \/ \E c \in Clients : \E s \in {200, 404, 503} : EnableFetch(c, s)
  \/ \E c \in Clients : EnableInsert(c)

RegSpec == RegInit /\ [][RegNext]_vars

\* Client c has sent a registration request with a full name.
IsRegistration(c) ==
  /\ http[c].route \in {"repositories.create", "github.enable"}
  /\ http[c].request.fullName # ""

\* The rows with a full name.
RowsNamed(fullName) == { r \in repositories : r.fullName = fullName }

\* C33: a registration of a full name that is already registered is
\* answered 409 and creates no row, and after any interleaving of
\* registration requests through POST /api/repositories and POST
\* /api/github/repos/enable there is at most one Repository row per full
\* name.
C33_DuplicateRegistrationIs409 ==
  /\ \A c \in Clients :
       ( /\ IsRegistration(c)
         /\ http[c].pc = "done"
         /\ http[c].request.fullName \in { r.fullName : r \in InitialRepositories }
         /\ http[c].thrown \notin {400, 404} ) =>
           /\ http[c].status = 409
           /\ RowsNamed(http[c].request.fullName) \subseteq InitialRepositories
  /\ \A r1, r2 \in repositories : r1.fullName = r2.fullName => r1 = r2

\* No registration of a registered full name creates a row, and no full
\* name has two rows.
RegistrationKeepsFullNamesUnique ==
  /\ \A c \in Clients :
       (IsRegistration(c) /\ http[c].pc = "done"
        /\ http[c].request.fullName \in { r.fullName : r \in InitialRepositories }) =>
          /\ http[c].status # 201
          /\ RowsNamed(http[c].request.fullName) \subseteq InitialRepositories
  /\ \A r1, r2 \in repositories : r1.fullName = r2.fullName => r1 = r2


\* The write that marks the Review of d running was refused: the rejection
\* of processReview was logged and no throw inside the try block came
\* before it.
RunningWriteFailed(d) ==
  Created(d) /\ ReviewWriteFailed(d) /\ task[d].error = <<>>

\* C34: when the write that moves a Review from pending to running fails,
\* the run fetches no diff, calls no AI, stores no comment and publishes
\* nothing; the failure is only logged (the run stops and the webhook
\* answer stays 201), and the Review stays pending with no completedAt and
\* no summary.
C34_RunningWriteFailureStopsTheRun ==
  \A d \in Deliveries :
    RunningWriteFailed(d) =>
      /\ task[d].pc = "rejected"
      /\ calls[d] = <<>>
      /\ CommentsOf(task[d].reviewId) = {}
      /\ response[d] = 201
      /\ ReviewOf(d).status = "pending"
      /\ ReviewOf(d).completedAt = Null
      /\ ReviewOf(d).summary = <<>>

\* C34 witness: the running write of one delivery was refused and its
\* Review is pending, while the review of another delivery went on to the
\* diff host.
C34_Witness ==
  \E d, e \in Deliveries :
    /\ RunningWriteFailed(d) /\ task[d].pc = "rejected"
    /\ ReviewOf(d).status = "pending"
    /\ e # d /\ Created(e) /\ calls[e] # <<>>


(***************************************************************************)
(* The OAuth state.                                                        *)
(***************************************************************************)
\* The tokens GET /auth/github is called with: in the query or in the
\* header, of each user, and one that is not valid.
OAuthStartAuths ==
  { BearerOf(u) : u \in UserIds }
  \cup { [scheme |-> "query", signedWith |-> JwtSecret, expired |-> FALSE, userId |-> "u2"],
         [scheme |-> "query", signedWith |-> "guess", expired |-> FALSE, userId |-> "u2"],
         NoAuth }

OAuthInit ==
  /\ PipelineIdle
  /\ pullRequests = {}
  /\ ApiIdle

OAuthNext ==
  \/ \E auth \in OAuthStartAuths : OAuthStart(auth)
  \/ OAuthTimePasses
  \/ OAuthCleanUp
  \/ \E b \in Clients : \E s \in CallbackStates : \E code \in CallbackCodes :
       OAuthCallback(b, s, code)
  \/ \E b \in Clients : \E answer \in {"failed", "empty", "token"} : OAuthExchange(b, answer)
  \/ \E b \in Clients : \E ok \in BOOLEAN : OAuthFetchUser(b, ok)
  \/ \E b \in Clients : \E ok \in BOOLEAN : OAuthUpsert(b, ok)

OAuthSpec == OAuthInit /\ [][OAuthNext]_vars

\* The callback of browser b got past the look-up of its state.
CallbackAccepted(b) ==
  oauth[b].pc \in {"exchange", "user", "upsert"}
  \/ (oauth[b].pc = "done"
      /\ oauth[b].redirect \notin {"missing_code", "missing_state", "invalid_state"})

\* C35: a state is single-use and bound to the user who started the flow.
\* A callback is accepted only with a state that GET /auth/github issued and
\* that is in the store; the state is out of the store before the code is
\* exchanged, so of the callbacks that carry one state at most one is
\* accepted, whatever becomes of it afterwards; and a connection a callback
\* creates belongs to the user the state was issued to.  (A callback for a
\* code-host account that already has a connection creates none: it
\* replaces the token of that row, whose owner stays.)
C35_StateIsSingleUse ==
  /\ \A b \in Clients :
       CallbackAccepted(b) =>
         /\ oauth[b].state \in 1..Len(stateStore.issued)
         /\ oauth[b].userId = stateStore.issued[oauth[b].state]
         /\ ~\E e \in stateStore.map : e.state = oauth[b].state
  /\ \A b, c \in Clients :
       (CallbackAccepted(b) /\ CallbackAccepted(c) /\ oauth[b].state = oauth[c].state) => b = c
  /\ \A b \in Clients :
       (oauth[b].pc = "done" /\ oauth[b].created) =>
         \E r \in connections :
           /\ r.githubId = oauth[b].githubId
           /\ r.userId = stateStore.issued[oauth[b].state]

\* C35 witness: two states were issued and two callbacks carried the one
\* issued to u2; the first was accepted and failed at the exchange, the
\* replay was rejected as invalid.
C35_Witness ==
  /\ Len(stateStore.issued) = 2
  /\ oauth[1].state = oauth[2].state
  /\ oauth[1].pc = "done" /\ oauth[1].redirect = "token_exchange_failed"
  /\ oauth[2].pc = "done" /\ oauth[2].redirect = "invalid_state"
  /\ stateStore.issued[oauth[1].state] = "u2"


(***************************************************************************)
(* The API behind requireAuth: the read routes, the delete route and the   *)
(* gate in front of them.                                                  *)
(***************************************************************************)
\* The Review rows of the two stored pull requests, as triggerReview
\* creates them.
ApiReviews ==
  << [id |-> 1, prId |-> 1, status |-> "pending", startedAt |-> "set",
      completedAt |-> Null, summary |-> <<>>, tokensUsed |-> {}],
     [id |-> 2, prId |-> 2, status |-> "pending", startedAt |-> "set",
      completedAt |-> Null, summary |-> <<>>, tokensUsed |-> {}] >>

\* The requests of two signed-in users, u1 (owner of r1) and u3 (owner of
\* r2), to the routes of the query layer.
TenantRequests ==
  UNION { { ApiRequest("GET", <<"api", "repositories">>, BearerOf(u), ""),
            ApiRequest("POST", <<"api", "repositories">>, BearerOf(u), "new/repo"),
            ApiRequest("GET", <<"api", "pull-requests">>, BearerOf(u), ""),
            WithId(ApiRequest("GET", <<"api", "pull-requests">>, BearerOf(u), ""), "r2"),
            ApiRequest("GET", <<"api", "nothing">>, BearerOf(u), "") }
          \cup { WithId(ApiRequest(m, <<"api", "repositories", ":id">>, BearerOf(u), ""), id) :
                   m \in {"GET", "DELETE"}, id \in {"r1", "r2"} }
          \cup { WithId(ApiRequest("GET", <<"api", p, ":id">>, BearerOf(u), ""), id) :
                   p \in {"pull-requests", "reviews"}, id \in {"1", "2"} } :
          u \in {"u1", "u3"} }

\* Requests without a valid Bearer token, to routes under /api, /webhooks
\* and /auth.
UnauthenticatedRequests ==
  { r \in UNION { { ApiRequest("GET", <<"api", "repositories">>, a, ""),
                    WithId(ApiRequest("DELETE", <<"api", "repositories", ":id">>, a, ""), "r1"),
                    WithId(ApiRequest("GET", <<"api", "reviews", ":id">>, a, ""), "1"),
                    ApiRequest("POST", <<"api", "github", "repos", "enable">>, a, "new/repo"),
                    ApiRequest("GET", <<"api", "github", "status">>, a, ""),
                    ApiRequest("GET", <<"api", "stats">>, a, ""),
                    ApiRequest("POST", <<"webhooks", "github">>, a, ""),
                    ApiRequest("POST", <<"auth", "google">>, a, ""),
                    ApiRequest("GET", <<"auth", "github">>, a, "") } :
                  a \in InvalidAuths } : TRUE }

ApiInit ==
  /\ repositories = InitialRepositories
  /\ connections = InitialConnections
  /\ pullRequests = KeyPullRequests
  /\ reviews = ApiReviews
  /\ reviewComments = {}
  /\ request = [d \in Deliveries |-> NoRequest]
  /\ handler = [d \in Deliveries |-> IdleHandler]
  /\ response = [d \in Deliveries |-> 0]
  /\ task = [d \in Deliveries |-> NoTask]
  /\ log = {}
  /\ calls = [d \in Deliveries |-> <<>>]
  /\ unit = IdleUnit
  /\ ApiIdle

ApiNext ==
  \/ \E c \in Clients : \E req \in TenantRequests \cup UnauthenticatedRequests :
       ApiReceive(c, req)
  \/ \E c \in Clients : RepositoriesList(c)
  \/ \E c \in Clients : RepositoriesCreateFind(c)
  \/ \E c \in Clients : RepositoriesCreateInsert(c)
  \/ \E c \in Clients : RepositoriesGet(c)
  \/ \E c \in Clients : RepositoriesDelete(c)
  \/ \E c \in Clients : PullRequestsList(c)
  \/ \E c \in Clients : PullRequestsGet(c)
  \/ \E c \in Clients : ReviewsGet(c)
  \/ \E c \in Clients : OtherHandlerRuns(c)

ApiSpec == ApiInit /\ [][ApiNext]_vars

\* The ids of the rows a route looks at whose repository belongs to user u.
Visible(route, u) ==
  LET own == { r.id : r \in { x \in repositories : x.userId = u } }
      ownPrs == { p \in pullRequests : p.repoId \in own }
  IN  CASE route \in {"repositories.list", "repositories.get"} -> own
        [] route \in {"pullRequests.list", "pullRequests.get"} ->
             { ToString(p.id) : p \in ownPrs }
        [] route = "reviews.get" ->
             { ToString(reviews[i].id) :
                 i \in { j \in DOMAIN reviews : \E p \in ownPrs : p.id = reviews[j].prId } }
        [] OTHER -> {}

ReadRoutes ==
  {"repositories.list", "repositories.get", "pullRequests.list", "pullRequests.get",
   "reviews.get"}

\* The handler of client c ends in this step.
Ends(c) == http[c].pc = "handler" /\ http'[c].pc = "done"

\* A read answers with rows of the user only: a list holds the user's rows
\* and no other, a look-up by id finds the row exactly when it is the
\* user's.
ReadsOnlyOwnRows ==
  \A c \in Clients :
    (Ends(c) /\ http[c].route \in ReadRoutes) =>
      LET own == Visible(http[c].route, http[c].userId)
          id == http[c].request.id
      IN  /\ http'[c].result \subseteq own
          /\ (http[c].route = "repositories.list"
              \/ (http[c].route = "pullRequests.list" /\ id = "")) =>
                http'[c].result = own
          /\ http[c].route \in {"repositories.get", "pullRequests.get", "reviews.get"} =>
                http'[c].result = own \cap {id}

\* Client c asks in this step for the deletion of a repository of another
\* user.
DeletesForeign(c) ==
  /\ Ends(c) /\ http[c].route = "repositories.delete"
  /\ \E r \in repositories : r.id = http[c].request.id /\ r.userId # http[c].userId

\* C36: the repository, pull-request and review read routes return only
\* rows whose repository belongs to the authenticated user, so that what a
\* user gets does not depend on the rows of other users, and a request to
\* delete a repository of another user is answered 404 and leaves the
\* store unchanged.
C36_TenantIsolation ==
  [][/\ ReadsOnlyOwnRows
     /\ \A c \in Clients :
          DeletesForeign(c) => (http'[c].status = 404 /\ UNCHANGED dbVars)]_vars

\* The reads return only rows of the user, and a request to delete a
\* repository of another user throws the 404 error and leaves the store
\* unchanged.
TenantIsolationKept ==
  [][/\ ReadsOnlyOwnRows
     /\ \A c \in Clients :
          DeletesForeign(c) =>
            (http'[c].thrown = 404 /\ http'[c].status \notin {200, 204}
             /\ UNCHANGED dbVars)]_vars

\* The token jwt.verify accepts: a Bearer header, signed with the secret of
\* the server, not expired.
ValidBearer(auth) ==
  auth.scheme = "Bearer" /\ auth.signedWith = JwtSecret /\ ~auth.expired

====
